---- MODULE Spec2Model ----
(***************************************************************************)
(* Session orchestrator of the attitude simulator: the streaming (/ws)     *)
(* session (receiver and sender tasks joined by asyncio.gather), the       *)
(* request/response endpoint /api/compute, the configuration merge, the    *)
(* integrator adapter Plant.compute_states, the resampler                  *)
(* Plant.evaluate_gui and the quaternion algebra.                          *)
(*                                                                         *)
(* Numbers are integers: times, rates and tolerances are scaled so that    *)
(* the signs, the zero cases and the sample counts of the code are kept;   *)
(* quaternions and matrices are exact fractions of integers.               *)
(***************************************************************************)
EXTENDS Integers, Sequences, FiniteSets, TLC

\* ------------------------------------------------------------------ bounds
MaxT == 3          \* largest t_max a payload asks for
MaxMsgs == 2       \* messages a client sends in one streaming session
MaxSleeps == 1     \* keepalive sleeps counted after the last received message
MaxRate == 2       \* largest playback_speed / sample_rate of a direct evaluate_gui call
DefaultTMax == 2           \* simulation.t_max of the bundled preset (scaled)
DefaultSampleRate == 2     \* simulation.sample_rate of the bundled preset (scaled)
MaxQ == 2          \* largest magnitude of an integer quaternion component
MaxCalls == 2      \* /api/compute calls followed over time
MaxClock == 1      \* clock ticks followed
MaxDur == 1        \* longest duration of a stage of a compute
MaxTime == 4       \* largest t_sim, in units of the emission tolerance
MaxPeriod == 3     \* largest 1 / rate_hz of a sensor, in the same units
MaxSensorCalls == 4   \* maybe_emit calls on one synthesizer

\* ------------------------------------------------------ JSON / YAML values
\* A value as Python sees it: None, a number, a string, a list of numbers,
\* a boolean (n is 1 for True, 0 for False) or an object (a dict, whose
\* members the payload holds under dotted keys).
None == [tag |-> "none", n |-> 0, s |-> "", l |-> <<>>]
Num(x) == [tag |-> "num", n |-> x, s |-> "", l |-> <<>>]
Str(x) == [tag |-> "str", n |-> 0, s |-> x, l |-> <<>>]
List(x) == [tag |-> "list", n |-> 0, s |-> "", l |-> x]
Bool(b) == [tag |-> "bool", n |-> IF b THEN 1 ELSE 0, s |-> "", l |-> <<>>]
Dict == [tag |-> "dict", n |-> 0, s |-> "", l |-> <<>>]

\* float(v): succeeds on numbers, raises ValueError/TypeError otherwise.
FloatOk(v) == v.tag \in {"num", "bool"}

\* ------------------------------------------------------------- the payload
\* The top-level keys merge_with_defaults and api_compute read, the members of
\* a nested "control" object ("control.kp" is payload["control"]["kp"]; they
\* are absent unless "control" is an object), two overrides in the nested shape
\* of the configuration, and a key the code never reads.
PayloadKeys ==
  {"inertia", "shape", "q_bi", "omega_bi_radps", "dt_sim", "t_max",
   "playback_speed", "sample_rate", "rtol", "atol",
   "control_type", "ctrl", "kp", "kd", "qc", "epoch_utc",
   "control", "control.control_type", "control.ctrl", "control.kp",
   "control.kd", "control.qc",
   "simulation.t_max", "spacecraft.inertia", "unknown"}

\* payload.get(k) is None for a key that is absent (or null).
EmptyPayload == [k \in PayloadKeys |-> None]

Override(k, v) == [EmptyPayload EXCEPT ![k] = v]

\* Payloads a client sends: the empty one and single-field overrides that
\* cover valid values, each bound of the error taxonomy and non-numeric values.
Payloads ==
  {EmptyPayload}
  \cup {Override("t_max", Num(x)) : x \in -1..MaxT}
  \cup {Override("t_max", Str("abc"))}
  \cup {Override("sample_rate", Num(x)) : x \in {-1, 0, 1}}
  \cup {Override("playback_speed", Num(x)) : x \in {-1, 0, 2}}
  \cup {[Override("playback_speed", Num(-1)) EXCEPT !["sample_rate"] = Num(-1)]}
  \cup {[Override("t_max", Num(x)) EXCEPT !["playback_speed"] = Num(2)] : x \in 1..MaxT}
  \cup {[Override("t_max", Num(x)) EXCEPT !["sample_rate"] = Num(y)] :
          x \in 1..MaxT, y \in {1, 3}}
  \cup {Override("rtol", Num(-1)), Override("atol", Num(-1))}
  \cup {Override("inertia", List(<<x, 1, 1>>)) : x \in {-1, 0, 2}}
  \cup {Override("inertia", Str("abc"))}
  \cup {Override("dt_sim", Str("abc"))}
  \cup {Override("kp", Num(1)), Override("kp", Str("abc")), Override("kd", Str("abc"))}
  \cup {Override("epoch_utc", Str("2025-01-01 00:00:00"))}

\* ---------------------------------------------------------- configuration
\* The nested configuration dictionary, flattened:
\* spacecraft.{inertia,shape}, initial_conditions.{frame,q_bi,omega_bi_radps,
\* r_eci_m,v_eci_mps}, simulation.{dt_sim,...,atol}, control.{control_type,kp,kd,qc}
\* and the two session keys _epoch_utc and _received.
\* A field that is None is a key that is absent from the dictionary.
_load_defaults ==
  [inertia |-> List(<<1, 1, 1>>), shape |-> List(<<1, 1, 1>>),
   frame |-> Str("inertial"), q_bi |-> List(<<0, 0, 0, 1>>),
   omega_bi_radps |-> List(<<0, 0, 1>>),
   r_eci_m |-> List(<<1, 0, 0>>), v_eci_mps |-> List(<<0, 1, 0>>),
   dt_sim |-> Num(1), t_max |-> Num(DefaultTMax), playback_speed |-> Num(1),
   sample_rate |-> Num(DefaultSampleRate), rtol |-> Num(1), atol |-> Num(1),
   control_type |-> Str("none"), kp |-> Num(0), kd |-> Num(0),
   qc |-> List(<<0, 0, 0, 1>>),
   _epoch_utc |-> None, _received |-> FALSE]

\* sim_config = {"_received": False}: every other key is absent.
Placeholder == [f \in DOMAIN _load_defaults |->
                  IF f = "_received" THEN FALSE ELSE None]

\* s.lower().strip() on the strings of the model.
LowerStrip(s) ==
  CASE s = " Tracking " -> "tracking"
    [] s = "NONE" -> "none"
    [] OTHER -> s

\* An alias table that lets an integer that is already a variant through.
NormalizeControlType_int(v) ==
  IF v.tag = "num" /\ v.n \in {0, 1, 2} THEN v.n
  ELSE IF v.tag = "str" /\ LowerStrip(v.s) \in {"inertial_nonlinear", "nonlinear_tracking"} THEN 2
  ELSE IF v.tag = "str" /\ LowerStrip(v.s) \in {"inertial", "inertial_linear", "tracking"} THEN 1
  ELSE 0

\* The alias table of merge_with_defaults on str(control_type).lower().strip():
\* the text of a number, a boolean or a list is no alias.
NormalizeControlType(v) ==
  IF v.tag = "str" /\ LowerStrip(v.s) \in {"inertial_nonlinear", "nonlinear_tracking"} THEN 2
  ELSE IF v.tag = "str" /\ LowerStrip(v.s) \in {"inertial", "inertial_linear", "tracking"} THEN 1
  ELSE 0

\* _map_control_type of compute_states: an int (a bool is one) is passed
\* through, a string goes through the alias table, anything else is 0.
_map_control_type(v) ==
  IF v.tag \in {"num", "bool"} THEN v.n
  ELSE IF v.tag = "str" /\ LowerStrip(v.s) \in {"inertial", "inertial_linear", "tracking"} THEN 1
  ELSE IF v.tag = "str" /\ LowerStrip(v.s) \in {"inertial_nonlinear", "nonlinear_tracking"} THEN 2
  ELSE 0

\* Python truthiness of a value (for `a or b` and `if qc_list`).
Truthy(v) ==
  CASE v.tag = "none" -> FALSE
    [] v.tag = "num" -> v.n # 0
    [] v.tag = "str" -> v.s # ""
    [] v.tag = "list" -> Len(v.l) > 0
    [] v.tag = "bool" -> v.n # 0
    [] v.tag = "dict" -> TRUE

\* ctrl_payload.get(k): ctrl_payload is the nested "control" object when the
\* payload has one, and the payload itself otherwise.
CtrlGet(p, k) == IF p["control"].tag = "dict" THEN p["control." \o k] ELSE p[k]

\* control_type = ctrl_payload.get("control_type") or ctrl_payload.get("ctrl")
PayloadControlType(p) ==
  IF Truthy(CtrlGet(p, "control_type")) THEN CtrlGet(p, "control_type")
  ELSE CtrlGet(p, "ctrl")

\* merge_with_defaults raises when float(kp) or float(kd) raises.
MergeRaises(p) ==
  \/ CtrlGet(p, "kp") # None /\ ~FloatOk(CtrlGet(p, "kp"))
  \/ CtrlGet(p, "kd") # None /\ ~FloatOk(CtrlGet(p, "kd"))

Pick(p, k, dflt) == IF p[k] # None THEN p[k] ELSE dflt

\* float(x) of a value float() accepts.
Float(v) == Num(v.n)

\* A merge that also reads the overrides given in the nested shape of the
\* configuration (simulation.t_max, spacecraft.inertia).
MergeWith_deep(d, p) ==
  LET ct == PayloadControlType(p)
      kp == CtrlGet(p, "kp")
      kd == CtrlGet(p, "kd")
  IN [inertia |-> IF p["inertia"] # None THEN p["inertia"]
                  ELSE Pick(p, "spacecraft.inertia", d.inertia),
      shape |-> Pick(p, "shape", d.shape),
      frame |-> IF p["q_bi"] # None THEN Str("inertial") ELSE d.frame,
      q_bi |-> Pick(p, "q_bi", d.q_bi),
      omega_bi_radps |-> Pick(p, "omega_bi_radps", d.omega_bi_radps),
      r_eci_m |-> d.r_eci_m, v_eci_mps |-> d.v_eci_mps,
      dt_sim |-> Pick(p, "dt_sim", d.dt_sim),
      t_max |-> IF p["t_max"] # None THEN p["t_max"]
                ELSE Pick(p, "simulation.t_max", d.t_max),
      playback_speed |-> Pick(p, "playback_speed", d.playback_speed),
      sample_rate |-> Pick(p, "sample_rate", d.sample_rate),
      rtol |-> Pick(p, "rtol", d.rtol),
      atol |-> Pick(p, "atol", d.atol),
      control_type |-> IF ct # None THEN Num(NormalizeControlType(ct))
                       ELSE d.control_type,
      kp |-> IF kp # None THEN Float(kp) ELSE d.kp,
      kd |-> IF kd # None THEN Float(kd) ELSE d.kd,
      qc |-> IF CtrlGet(p, "qc") # None THEN CtrlGet(p, "qc") ELSE d.qc,
      _epoch_utc |-> None, _received |-> FALSE]

\* The body of merge_with_defaults on the loaded defaults d, when it does not
\* raise: the ten top-level keys are read from the payload, the control
\* settings from ctrl_payload.
MergeWith(d, p) ==
  LET ct == PayloadControlType(p)
      kp == CtrlGet(p, "kp")
      kd == CtrlGet(p, "kd")
  IN [inertia |-> Pick(p, "inertia", d.inertia),
      shape |-> Pick(p, "shape", d.shape),
      frame |-> IF p["q_bi"] # None THEN Str("inertial") ELSE d.frame,
      q_bi |-> Pick(p, "q_bi", d.q_bi),
      omega_bi_radps |-> Pick(p, "omega_bi_radps", d.omega_bi_radps),
      r_eci_m |-> d.r_eci_m, v_eci_mps |-> d.v_eci_mps,
      dt_sim |-> Pick(p, "dt_sim", d.dt_sim),
      t_max |-> Pick(p, "t_max", d.t_max),
      playback_speed |-> Pick(p, "playback_speed", d.playback_speed),
      sample_rate |-> Pick(p, "sample_rate", d.sample_rate),
      rtol |-> Pick(p, "rtol", d.rtol),
      atol |-> Pick(p, "atol", d.atol),
      control_type |-> IF ct # None THEN Num(NormalizeControlType(ct))
                       ELSE d.control_type,
      kp |-> IF kp # None THEN Float(kp) ELSE d.kp,
      kd |-> IF kd # None THEN Float(kd) ELSE d.kd,
      qc |-> IF CtrlGet(p, "qc") # None THEN CtrlGet(p, "qc") ELSE d.qc,
      _epoch_utc |-> None, _received |-> FALSE]

\* merge_with_defaults(payload) on the bundled preset.
merge_with_defaults(p) == MergeWith(_load_defaults, p)

\* A merged configuration handed back to merge_with_defaults as its payload:
\* a nested object with the keys spacecraft, initial_conditions, simulation
\* and control and none of the top-level override keys.
AsPayload(cfg) ==
  [k \in PayloadKeys |->
     CASE k = "control" -> Dict
       [] k = "control.control_type" -> cfg.control_type
       [] k = "control.kp" -> cfg.kp
       [] k = "control.kd" -> cfg.kd
       [] k = "control.qc" -> cfg.qc
       [] k = "simulation.t_max" -> cfg.t_max
       [] k = "spacecraft.inertia" -> cfg.inertia
       [] OTHER -> None]

\* Bundled presets: the control type and the frame of the preset file vary.
Presets ==
  {[_load_defaults EXCEPT !.control_type = Str(ct), !.frame = Str(fr)] :
     ct \in {"none", "tracking", "nonlinear_tracking"},
     fr \in {"inertial", "orbit"}}

\* ------------------------------------------------------------ arithmetic
\* ceil(a / b) for b # 0, as numpy computes the length of arange.
CeilDiv(a, b) ==
  LET aa == IF b < 0 THEN -a ELSE a
      bb == IF b < 0 THEN -b ELSE b
  IN IF aa >= 0 THEN (aa + bb - 1) \div bb ELSE -((-aa) \div bb)

Max(a, b) == IF a >= b THEN a ELSE b

Last(q) == q[Len(q)]

RECURSIVE SortedSeq(_)
\* The elements of a finite set of integers in increasing order.
SortedSeq(S) ==
  IF S = {} THEN <<>>
  ELSE LET m == CHOOSE x \in S : \A y \in S : x <= y
       IN <<m>> \o SortedSeq(S \ {m})

Negated(q) == [i \in DOMAIN q |-> -q[i]]

StrictlyIncreasing(q) == \A i \in 1..(Len(q) - 1) : q[i] < q[i + 1]

\* ----------------------------------------------------------------- sensors
\* Times are counted in units of the emission tolerance 1e-9 s.
Eps == 1

\* DeterministicRNG(seed): np.random.default_rng(seed).  The generator is
\* [seed, n] after n values drawn; the values drawn are those of the stream
\* of the seed at positions n + 1 .. n + size.
DeterministicRNG(seed) == [seed |-> seed, n |-> 0]

\* rng.normal(mean, sigma, size): the generator afterwards.
normal(rng, size) == [rng EXCEPT !.n = rng.n + size]

\* The values drawn by rng.normal(mean, sigma, size), by stream and position.
Drawn(rng, size) == [seed |-> rng.seed, from |-> rng.n + 1, size |-> size]

\* GPSSynthesizer(cfg, rng) or GyroSynthesizer(cfg, rng) after __init__;
\* period is 1.0 / cfg.rate_hz, bias_rw whether cfg.bias_rw_sigma is set and
\* positive (GyroSynthesizer only).
Synthesizer(kind, period, bias_rw) ==
  [kind |-> kind, period |-> period, bias_rw |-> bias_rw,
   next_emit |-> 0, seq |-> 0]

NoSensor == Synthesizer("none", 1, FALSE)

\* An emission test without the tolerance.
Emits_strict(s, t_sim) == ~(t_sim < s.next_emit)

\* maybe_emit returns a message: `if t_sim + 1e-9 < self._next_emit: return
\* None` was not taken.
Emits(s, t_sim) == ~(t_sim + Eps < s.next_emit)

\* The synthesizer after maybe_emit(t_sim, ...).
AfterEmit(s, t_sim) ==
  IF Emits(s, t_sim)
  THEN [s EXCEPT !.next_emit = t_sim + s.period, !.seq = s.seq + 1]
  ELSE s

\* Values maybe_emit draws when it emits: 3 + 3 for GPS; for the gyro 3 for
\* step_bias when the bias random walk is on, and 3 for the noise.
DrawSize(s) ==
  IF s.kind = "gps" THEN 6 ELSE IF s.bias_rw THEN 6 ELSE 3

\* The message maybe_emit returns when it emits (t_sent is None).
SensorMsg(s, t_sim, rng) ==
  [sensor |-> s.kind, t_sim |-> t_sim, seq |-> s.seq + 1,
   noise |-> Drawn(rng, DrawSize(s))]

\* ------------------------------------------------------- plant.run
\* integrate_attitude_rk4(q_bi, omega_b, dt) evaluates 0.5 * q ** w on its
\* argument: Quaternion.__pow__ for a Quaternion; for a numpy array of shape
\* (4,) and w of shape (3,) the elementwise power, which cannot be broadcast
\* and raises ValueError.
IntegrateAttitudeRaises(q_bi) == q_bi = "ndarray"

\* A run that has not started.
NotStarted ==
  [pc |-> "start", cfg |-> [dt_sim |-> 1, t_final |-> 0, gps |-> 1, gyro |-> 1,
                            bias_rw |-> FALSE, rng_seed |-> 0],
   t_sim |-> 0, q_bi |-> "ndarray", rng |-> DeterministicRNG(0),
   gps |-> NoSensor, gyro |-> NoSensor, replay |-> <<>>]

\* run(config_path) down to the loop: q_bi = np.array(...), t_sim = 0.0, one
\* generator shared by the two synthesizers, an empty replay file.
Started(cfg) ==
  [pc |-> "loop", cfg |-> cfg, t_sim |-> 0, q_bi |-> "ndarray",
   rng |-> DeterministicRNG(cfg.rng_seed),
   gps |-> Synthesizer("gps", cfg.gps, FALSE),
   gyro |-> Synthesizer("gyro", cfg.gyro, cfg.bias_rw), replay |-> <<>>]

\* One evaluation of `while t_sim <= t_final` and of the loop body, with no
\* incoming datagram: the orbit and attitude steps, the GPS message, the gyro
\* message, t_sim += dt_sim.
Iterate(r) ==
  IF r.t_sim > r.cfg.t_final THEN [r EXCEPT !.pc = "done"]
  ELSE IF IntegrateAttitudeRaises(r.q_bi) THEN [r EXCEPT !.pc = "raised"]
  ELSE LET g == Emits(r.gps, r.t_sim)
           rng1 == IF g THEN normal(r.rng, DrawSize(r.gps)) ELSE r.rng
           y == Emits(r.gyro, r.t_sim)
           rng2 == IF y THEN normal(rng1, DrawSize(r.gyro)) ELSE rng1
       IN [r EXCEPT !.q_bi = "Quaternion",
                    !.gps = AfterEmit(r.gps, r.t_sim),
                    !.gyro = AfterEmit(r.gyro, r.t_sim),
                    !.rng = rng2,
                    !.replay = r.replay
                       \o (IF g THEN <<SensorMsg(r.gps, r.t_sim, r.rng)>> ELSE <<>>)
                       \o (IF y THEN <<SensorMsg(r.gyro, r.t_sim, rng1)>> ELSE <<>>),
                    !.t_sim = r.t_sim + r.cfg.dt_sim]

\* ------------------------------------------------------- Plant.__init__
\* Plant(config=cfg) raises: a missing section (KeyError), float(dt_sim),
\* np.diag / np.linalg.inv of the inertia (a singular matrix when an entry
\* is 0), frame "orbit" (NotImplementedError), any other frame (ValueError).
PlantInitRaises(cfg) ==
  \/ cfg.dt_sim # None /\ ~FloatOk(cfg.dt_sim)
  \/ cfg.r_eci_m = None \/ cfg.v_eci_mps = None
  \/ cfg.inertia.tag # "list"
  \/ \E i \in DOMAIN cfg.inertia.l : cfg.inertia.l[i] = 0
  \/ cfg.frame # None /\ cfg.frame # Str("inertial")
  \/ cfg.q_bi.tag # "list" \/ cfg.omega_bi_radps.tag # "list"

\* ------------------------------------------------- Plant.compute_states
\* solve_ivp rejects a negative atol (ValueError); a negative rtol is only
\* raised to the smallest admissible value with a warning.
SolveIvpRaises(rtol, atol) == atol < 0

\* What solve_ivp can return for t_span = (0, tmax): the accepted step times,
\* from 0 towards tmax, and the status: 0 when tmax was reached, -1 when the
\* step size fell below the floor before that.  The result is returned, not
\* raised, in both cases.
Solutions(tmax) ==
  IF tmax = 0 THEN {[t |-> <<0, 0>>, status |-> 0]}
  ELSE LET T == IF tmax < 0 THEN -tmax ELSE tmax
           fwd == {SortedSeq({0} \cup S) : S \in SUBSET (1..T)}
       IN {[t |-> IF tmax < 0 THEN Negated(q) ELSE q,
            status |-> IF Last(q) = T THEN 0 ELSE -1] : q \in fwd}

\* compute_states returns (sol.t, sol.y) whatever sol.status is.
compute_states(sol) == sol.t

\* The quaternion rows y[9:13] of sol.y, as the squared norm of each column:
\* [sq, drift] stands for a squared norm of sq, changed by the local error of
\* the solver steps when drift is 1.  The first column is y0, which holds
\* q_bi as given; every later column is what a solver step made of it, with
\* the norm kept or not.
SolveIvpQuatNorms(q_bi, t) ==
  {y \in [1..Len(t) -> [sq : {q_bi[1] * q_bi[1] + q_bi[2] * q_bi[2]
                               + q_bi[3] * q_bi[3] + q_bi[4] * q_bi[4]},
                         drift : {0, 1}]] : y[1].drift = 0}

\* The second component of the pair compute_states returns: sol.y, as the
\* solver left it.
compute_states_y(y) == y

\* --------------------------------------------------- Plant.evaluate_gui
\* scipy's Slerp(t, rotations) raises unless there are at least two
\* keyframes at strictly increasing times.
SlerpRaises(t) == Len(t) < 2 \/ ~StrictlyIncreasing(t)

\* np.arange with the end point counted as a sample (as np.linspace does):
\* floor(stop / step) + 1 values.
ArangeLen_inclusive(stop, ps, sr) == Max(0, 1 - CeilDiv(-(stop * sr), ps))

\* np.arange with the length rounded down: floor(stop / step) values.
ArangeLen_floor(stop, ps, sr) == Max(0, -CeilDiv(-(stop * sr), ps))

\* len(np.arange(0, stop, ps / sr)) for ps # 0 and sr # 0.
ArangeLen(stop, ps, sr) == Max(0, CeilDiv(stop * sr, ps))

\* np.arange(0, stop, ps / sr): the values 0, step, 2 * step, ... with
\* step = ps / sr.  A sample time is held as its numerator over the
\* denominator sr: the entry k * ps stands for the time k * ps / sr.
Arange(stop, ps, sr) ==
  [k \in 1..ArangeLen(stop, ps, sr) |-> (k - 1) * ps]

\* np.interp(t_sampled, t, y[i]): one value per sample time.
np_interp(ts) == Len(ts)

\* slerp_quat_array(t_sampled, t, y[9:13]): the columns of the (4, M) result.
slerp_quat_array(ts) == Len(ts)

\* quat_to_euler(q) for q of shape (4, n): the shape of the result.  A (4, 1)
\* array takes the single-quaternion branch, which returns the (3,) array of
\* rotmatrix_to_euler321; any other n fills a (3, n) array column by column.
quat_to_euler_shape(n) == IF n = 1 THEN <<3>> ELSE <<3, n>>

GuiRaised == [raised |-> TRUE, M |-> 0, chan |-> 0, t_sampled |-> <<>>,
              q_sampled |-> 0, euler_sampled |-> <<3, 0>>]

\* evaluate_gui(t, y, playback_speed, sample_rate): raised, or t_sampled with
\* its length M, the length chan of the channels np.interp samples (r, v, w,
\* h), the columns of q_sampled and the shape of euler_sampled.
evaluate_gui(t, ps, sr) ==
  IF sr = 0 THEN GuiRaised                     \* ps / sr
  ELSE IF ps = 0 THEN GuiRaised                \* arange, step 0
  ELSE IF SlerpRaises(t) THEN GuiRaised
  ELSE LET ts == Arange(Last(t), ps, sr)
       IN [raised |-> FALSE, M |-> Len(ts), chan |-> np_interp(ts),
           t_sampled |-> ts, q_sampled |-> slerp_quat_array(ts),
           euler_sampled |-> quat_to_euler_shape(slerp_quat_array(ts))]

\* ------------------------------------------------------ quaternion algebra
\* Quaternions are scalar last and are held exactly: the record
\* [x, den, rad] stands for x / (den * sqrt(rad)) with integers x[1..4],
\* den and rad.  The unit quaternion v / |v| of an integer vector v is
\* [x |-> v, den |-> 1, rad |-> |v|^2].  A den of 0 records a division by
\* zero.  A matrix is [a, den], standing for a / den.
Quat(x, den, rad) == [x |-> x, den |-> den, rad |-> rad]

NormSq(x) == x[1] * x[1] + x[2] * x[2] + x[3] * x[3] + x[4] * x[4]

\* np.isclose(quat_norm(q), 1.0) in exact arithmetic.
quat_is_normalized(q) == NormSq(q.x) = q.den * q.den * q.rad

quat_psi(x) ==
  << <<x[4], x[3], -x[2]>>,
     <<-x[3], x[4], x[1]>>,
     <<x[2], -x[1], x[4]>>,
     <<-x[1], -x[2], -x[3]>> >>

quat_xi(x) ==
  << <<x[4], -x[3], x[2]>>,
     <<x[3], x[4], -x[1]>>,
     <<-x[2], x[1], x[4]>>,
     <<-x[1], -x[2], -x[3]>> >>

\* np.hstack((quat_psi(q), q.reshape(4, 1)))
quat_multiply_cross_operator(x) == [i \in 1..4 |-> quat_psi(x)[i] \o <<x[i]>>]

\* M @ v for a matrix with four columns.
MatVec(M, v) ==
  [i \in DOMAIN M |->
     M[i][1] * v[1] + M[i][2] * v[2] + M[i][3] * v[3] + M[i][4] * v[4]]

\* A conjugate that leaves its argument as it is.
quat_conj_same(q) == q

quat_conj(q) == [q EXCEPT !.x = <<-q.x[1], -q.x[2], -q.x[3], q.x[4]>>]

\* quat_multiply_cross_operator(q1) @ q2, for q1 and q2 over the same rad:
\* sqrt(rad) * sqrt(rad) = rad joins the denominator.
quat_multiply_cross(q1, q2) ==
  Quat(MatVec(quat_multiply_cross_operator(q1.x), q2.x),
       q1.den * q2.den * q1.rad, 1)

\* quat_conj(q) / quat_norm(q) ** 2, with |q|^2 = NormSq(x) / (den^2 * rad).
quat_inv(q) ==
  Quat([i \in 1..4 |-> quat_conj(q).x[i] * q.den * q.rad], NormSq(q.x), q.rad)

\* -q
QuatNeg(q) == [q EXCEPT !.x = [i \in 1..4 |-> -q.x[i]]]

\* w * q for an integer w.
Scale(w, q) == [q EXCEPT !.x = [i \in 1..4 |-> w * q.x[i]]]

\* quat_normalize(q): the identity when the norm is 0, q / |q| otherwise;
\* x / (den sqrt(rad)) over its norm sqrt(NormSq(x)) / (den sqrt(rad)) is
\* x / sqrt(NormSq(x)).
quat_normalize(q) ==
  IF NormSq(q.x) = 0 THEN Quat(<<0, 0, 0, 1>>, 1, 1)
  ELSE Quat(q.x, 1, NormSq(q.x))

\* sin(t * theta) / sin(theta) at the end points t = 0 and t = 1, for
\* sin(theta) # 0: sin(0) / s0 = 0 and s0 / s0 = 1.
SinRatio(t) == t

\* w1 * a + w2 * b when one of the weights is 0.
Combine(w1, a, w2, b) == IF w2 = 0 THEN Scale(w1, a) ELSE Scale(w2, b)

\* dot > 0.9995 for dot = d / sqrt(R) with d >= 0, that is
\* 2000^2 * d^2 > 1999^2 * R, written as 1000 X < 3999 (R - 1000 X) for
\* X = R - d^2 to keep the products small.
Above9995(d, R) ==
  LET A == 1000 * (R - d * d)
  IN (A \div 3999) < R - A

\* A slerp that keeps q1 as it is when dot < 0.
slerp_noflip(q0, q1, t) ==
  LET a == quat_normalize(q0)
      b == quat_normalize(q1)
      dot == a.x[1] * b.x[1] + a.x[2] * b.x[2] + a.x[3] * b.x[3] + a.x[4] * b.x[4]
  IN IF dot > 0 /\ Above9995(dot, a.rad * b.rad)
     THEN Combine(1 - t, a, t, b)
     ELSE Combine(SinRatio(1 - t), a, SinRatio(t), b)

\* slerp(q0, q1, t) at t = 0 and t = 1.  With a = q0_n and b0 = q1_n (both of
\* den 1) dot is d / sqrt(a.rad * b0.rad) for the integer d below; q1_n and
\* dot are negated when dot < 0.  In the other branch
\* theta = arccos(dot) is in [0.03, pi/2], so sin(theta) # 0.
slerp(q0, q1, t) ==
  LET a == quat_normalize(q0)
      b0 == quat_normalize(q1)
      d == a.x[1] * b0.x[1] + a.x[2] * b0.x[2] + a.x[3] * b0.x[3]
           + a.x[4] * b0.x[4]
      b == IF d < 0 THEN QuatNeg(b0) ELSE b0
      dot == IF d < 0 THEN -d ELSE d
  IN IF Above9995(dot, a.rad * b.rad)
     THEN Combine(1 - t, a, t, b)
     ELSE Combine(SinRatio(1 - t), a, SinRatio(t), b)

\* quat_xi(q).T @ quat_psi(q)
quat_to_rotmatrix(q) ==
  [a |-> [i \in 1..3 |-> [j \in 1..3 |->
            quat_xi(q.x)[1][i] * quat_psi(q.x)[1][j]
            + quat_xi(q.x)[2][i] * quat_psi(q.x)[2][j]
            + quat_xi(q.x)[3][i] * quat_psi(q.x)[3][j]
            + quat_xi(q.x)[4][i] * quat_psi(q.x)[4][j]]],
   den |-> q.den * q.den * q.rad]

\* The integer square root (exact on the squares the conversions meet).
ISqrt(n) ==
  IF n <= 0 THEN 0
  ELSE CHOOSE r \in 0..n : r * r <= n /\ (r + 1) * (r + 1) > n

\* rotmatrix_to_quaternion(A): the branch of the largest of trace, A[0,0],
\* A[1,1], A[2,2] (the first that equals the maximum).  With
\* root / sqrt(A.den) = sqrt(1 + ...), the pivot component is
\* root / (2 sqrt(A.den)) and another component (N / A.den) / (4 * pivot) is
\* N / (2 root sqrt(A.den)): all four are written over 2 root sqrt(A.den).
\* Indices are one more than in the source.
rotmatrix_to_quaternion(A) ==
  LET a == A.a
      trA == a[1][1] + a[2][2] + a[3][3]
      m == Max(Max(trA, a[1][1]), Max(a[2][2], a[3][3]))
  IN IF m = trA THEN
       LET root == ISqrt(A.den + trA)
       IN Quat(<<a[3][2] - a[2][3], a[1][3] - a[3][1], a[2][1] - a[1][2],
                 root * root>>, 2 * root, A.den)
     ELSE IF m = a[1][1] THEN
       LET root == ISqrt(A.den + 2 * a[1][1] - trA)
       IN Quat(<<root * root, a[1][2] + a[2][1], a[1][3] + a[3][1],
                 a[2][3] - a[3][2]>>, 2 * root, A.den)
     ELSE IF m = a[2][2] THEN
       LET root == ISqrt(A.den + 2 * a[2][2] - trA)
       IN Quat(<<a[1][2] + a[2][1], root * root, a[2][3] + a[3][2],
                 a[1][3] - a[3][1]>>, 2 * root, A.den)
     ELSE
       LET root == ISqrt(A.den + 2 * a[3][3] - trA)
       IN Quat(<<a[1][3] + a[3][1], a[2][3] + a[3][2], root * root,
                 a[1][2] - a[2][1]>>, 2 * root, A.den)

\* rotmatrix_to_euler321(A): roll = arctan2(A[2,1], A[2,2]),
\* pitch = arcsin(-A[2,0]), yaw = arctan2(A[1,0], A[0,0]).  An arctan2 is held
\* as its pair of arguments <<y, x>>, an arcsin as its argument, all over A.den.
rotmatrix_to_euler321(A) ==
  [roll |-> <<A.a[3][2], A.a[3][3]>>,
   pitch |-> -A.a[3][1],
   yaw |-> <<A.a[2][1], A.a[1][1]>>,
   den |-> A.den]

\* quat_to_euler(q) for a single quaternion.
quat_to_euler(q) == rotmatrix_to_euler321(quat_to_rotmatrix(q))

\* ------------------------------------------- the compute both endpoints run
\* sim.get(k, default) followed by float(): the value, or the default when the
\* key is absent.
SimGet(cfg, k, dflt) == IF cfg[k] = None THEN Num(dflt) ELSE cfg[k]

\* float(sim.get("t_max", ...)) ... float(sim.get("sample_rate", ...)) raise.
FloatsRaise(cfg) ==
  \E k \in {"t_max", "rtol", "atol", "playback_speed", "sample_rate"} :
    cfg[k] # None /\ ~FloatOk(cfg[k])

\* What an endpoint produces: a dataset with its metrics, an error message,
\* or an exception that leaves the function ("raised").  stage names the
\* statement that failed; tMax, tLast, status and N describe the solver run
\* the dataset was built from, M is len(dataset.t), chan the length of the
\* sampled channels.
Res(kind, stage, sol, tmax, g) ==
  [kind |-> kind, stage |-> stage, tMax |-> tmax,
   N |-> Len(sol.t), tLast |-> Last(sol.t), status |-> sol.status,
   M |-> g.M, chan |-> g.chan]

NoSol == [t |-> <<0>>, status |-> 0]
NoGui == [GuiRaised EXCEPT !.raised = FALSE]
NoRes == Res("none", "", NoSol, 0, NoGui)
Failure(kind, stage) == Res(kind, stage, NoSol, 0, NoGui)

\* The statements both endpoints run on a merged configuration, in order:
\* Plant(config=cfg), the float() conversions of the simulation settings,
\* plant.compute_states(**args), plant.evaluate_gui(...), and the construction
\* of {"dataset": ..., "metrics": ...}.  The first statement that raises ends
\* the run with kind "raised" and its name in stage.
RunStages(cfg, sol) ==
  LET tmax == SimGet(cfg, "t_max", DefaultTMax).n
      rtol == SimGet(cfg, "rtol", 1).n
      atol == SimGet(cfg, "atol", 1).n
      ps == SimGet(cfg, "playback_speed", 1).n
      sr == SimGet(cfg, "sample_rate", DefaultSampleRate).n
      g == evaluate_gui(compute_states(sol), ps, sr)
  IN IF PlantInitRaises(cfg) THEN Failure("raised", "Plant")
     ELSE IF FloatsRaise(cfg) THEN Failure("raised", "float")
     ELSE IF SolveIvpRaises(rtol, atol) THEN Failure("raised", "compute_states")
     ELSE IF g.raised THEN Res("raised", "evaluate_gui", sol, tmax, NoGui)
     ELSE Res("dataset", "", sol, tmax, g)

\* compute_states was entered (and returned or raised) in a run.
CalledComputeStates(r) == r.stage \in {"", "compute_states", "evaluate_gui"}

\* `except Exception as e: return/send {"error": str(e)}` for the stages the
\* try block covers.
Catch(r, covered) ==
  IF r.kind = "raised" /\ r.stage \in covered THEN [r EXCEPT !.kind = "error"]
  ELSE r

AllStages == {"merge_with_defaults", "Plant", "float", "compute_states", "evaluate_gui"}

\* Solver runs possible for a configuration (one dummy run when the
\* configuration never reaches the solver).
SolutionsFor(cfg) ==
  IF cfg.t_max = None THEN Solutions(DefaultTMax)
  ELSE IF FloatOk(cfg.t_max) THEN Solutions(cfg.t_max.n)
  ELSE {NoSol}

\* The keys of the JSON object an endpoint returns or sends.
Keys(r) ==
  IF r.kind = "dataset" THEN {"dataset", "metrics"}
  ELSE IF r.kind = "error" THEN {"error"}
  ELSE {}

\* What solve_ivp is given: y0 (r0, v0, w_bi, q_bi, h0), the inertia and the
\* control arguments, t_span and the tolerances; that is the configuration
\* without the fields compute_states does not read.
SolverInputs(cfg) ==
  [cfg EXCEPT !.shape = None, !.dt_sim = None, !.playback_speed = None,
              !.sample_rate = None, !._epoch_utc = None, !._received = FALSE]

\* A solver whose steps are not a function of what it is given.
solve_ivp_unrepeatable(memo, key, S) == S

\* solve_ivp is a function of its arguments (it draws no random number and
\* reads no clock): what it returned for the same arguments before, and
\* otherwise one of the runs S possible for them.
solve_ivp(memo, key, S) ==
  IF \E m \in memo : m[1] = key THEN {m[2] : m \in {x \in memo : x[1] = key}}
  ELSE S

\* The arrays t, qx..qw, p, q, r, hx..hz of the dataset: the sample times and
\* the channels interpolated at them from the solver states y (named here by
\* the accepted step times), chan values each.
DatasetArrays(cfg, sol) ==
  LET g == evaluate_gui(compute_states(sol),
                        SimGet(cfg, "playback_speed", 1).n,
                        SimGet(cfg, "sample_rate", DefaultSampleRate).n)
  IN [t |-> g.t_sampled, chan |-> g.chan, y |-> sol.t]

NoArrays == [t |-> <<>>, chan |-> 0, y |-> <<>>]

\* input_time_str of the earth rotation parameters: the epoch_utc of the
\* body, or the current time when it is absent or empty.
input_time_str(body, now) ==
  IF Truthy(body["epoch_utc"]) THEN body["epoch_utc"] ELSE Num(now)

\* A selection that looks at control_type alone.
ControlArgs_type_only(cfg) ==
  IF cfg.control_type # None
  THEN [passed |-> TRUE, control_type |-> cfg.control_type,
        kp |-> Float(SimGet(cfg, "kp", 0)), kd |-> Float(SimGet(cfg, "kd", 0)),
        qc |-> cfg.qc]
  ELSE [passed |-> FALSE, control_type |-> None, kp |-> None, kd |-> None,
        qc |-> None]

\* The control arguments of plant.compute_states(**args): control_type, kp, kd
\* and qc are added to args `if control_type is not None and qc_list`, with
\* kp = float(ctrl.get("kp", 0.0)) and kd likewise; otherwise the call has
\* none of them and the parameters keep their default None.
ControlArgs(cfg) ==
  IF cfg.control_type # None /\ Truthy(cfg.qc)
  THEN [passed |-> TRUE, control_type |-> cfg.control_type,
        kp |-> Float(SimGet(cfg, "kp", 0)), kd |-> Float(SimGet(cfg, "kd", 0)),
        qc |-> cfg.qc]
  ELSE [passed |-> FALSE, control_type |-> None, kp |-> None, kd |-> None,
        qc |-> None]

\* args of state_deriv after J and Ji: ct_int, kp_val, kd_val and qc_arr.
DynamicsArgs(a) ==
  [ct_int |-> _map_control_type(a.control_type),
   kp_val |-> IF a.kp # None THEN a.kp.n ELSE 0,
   kd_val |-> IF a.kd # None THEN a.kd.n ELSE 0,
   qc_arr |-> IF a.qc # None THEN a.qc.l ELSE <<0, 0, 0, 1>>]

\* The perf_counter readings t0 and t1 and the times compute_states and
\* evaluate_gui start and end at, counted from the entry of the handler:
\* t0 is read right before the compute_states call, t1 right after it.
Timeline_whole(setup, compute, gui) ==
  [t0 |-> 0, csStart |-> setup, csEnd |-> setup + compute,
   t1 |-> setup + compute + gui, guiStart |-> setup + compute,
   guiEnd |-> setup + compute + gui]

Timeline(setup, compute, gui) ==
  [t0 |-> setup, csStart |-> setup, csEnd |-> setup + compute,
   t1 |-> setup + compute, guiStart |-> setup + compute,
   guiEnd |-> setup + compute + gui]

\* len(y0): r0, v0, w_bi, q_bi and h0 = np.zeros(3) stacked.
StateSize(cfg) ==
  Len(cfg.r_eci_m.l) + Len(cfg.v_eci_mps.l) + Len(cfg.omega_bi_radps.l)
  + Len(cfg.q_bi.l) + 3

\* The metrics object: t.nbytes + y.nbytes for float64 arrays of shapes (N,)
\* and (len(y0), N); t_compute / num_steps is held as a fraction.
Metrics(cfg, sol, tl) ==
  LET num_steps == Len(sol.t)
      t_compute == tl.t1 - tl.t0
  IN [compute_time_s |-> t_compute,
      num_integration_points |-> num_steps,
      time_per_integration_point_s |->
        IF num_steps > 0 THEN [num |-> t_compute, den |-> num_steps]
        ELSE [num |-> 0, den |-> 1],
      solver_state_size_bytes |-> 8 * num_steps + 8 * StateSize(cfg) * num_steps,
      times |-> tl]

NoMetrics == Metrics(_load_defaults, [t |-> <<>>, status |-> 0], Timeline(0, 0, 0))

\* ------------------------------------------------------ POST /api/compute
\* A try block that starts after the simulator is built and the settings are
\* converted, as in the streaming sender.
api_compute_narrow_try(body, sol) ==
  IF MergeRaises(body) THEN Failure("raised", "merge_with_defaults")
  ELSE Catch(RunStages(merge_with_defaults(body), sol),
             {"compute_states", "evaluate_gui"})

\* api_compute(config): the whole body is inside try/except Exception.
api_compute(body, sol) ==
  IF MergeRaises(body) THEN Failure("error", "merge_with_defaults")
  ELSE Catch(RunStages(merge_with_defaults(body), sol), AllStages)

\* The try block of the streaming sender starts after Plant(config=sim_config)
\* and the float() conversions.
SenderTryStages == {"compute_states", "evaluate_gui"}

\* ----------------------------------------------------- the /ws messages
Msg(kind, command, payload_kind, payload) ==
  [kind |-> kind, command |-> command, payload_kind |-> payload_kind,
   payload |-> payload]

\* Payloads sent in streaming sessions.
WsPayloads ==
  {EmptyPayload,
   [Override("t_max", Num(1)) EXCEPT !["kp"] = Num(1),
                                     !["epoch_utc"] = Str("2025-01-01 00:00:00")],
   Override("t_max", Str("abc")),
   Override("sample_rate", Num(0)),
   Override("inertia", List(<<0, 1, 1>>)),
   Override("kp", Str("abc"))}

\* Texts a client sends: text that is not JSON, JSON that is not an object
\* (such as [] or 42), an object without "command", pause, resume, and
\* configure with a payload that is an object or is not one (such as 5).
Msgs ==
  {Msg("text", "", "absent", EmptyPayload),
   Msg("json_other", "", "absent", EmptyPayload),
   Msg("object", "", "absent", EmptyPayload),
   Msg("object", "pause", "absent", EmptyPayload),
   Msg("object", "resume", "absent", EmptyPayload),
   Msg("object", "configure", "nondict", EmptyPayload)}
  \cup {Msg("object", "configure", "dict", p) : p \in WsPayloads}

IsConfigure(m) == m.kind = "object" /\ m.command = "configure"

\* The reads of sim_config between the return of config_event.wait() and the
\* send: Plant(config=sim_config), sim_config.get("simulation"),
\* sim_config.get("control") and sim_config.get("_epoch_utc").
SenderReads(cfg) ==
  [plant |-> [k \in {"inertia", "shape", "frame", "q_bi", "omega_bi_radps",
                     "r_eci_m", "v_eci_mps", "dt_sim"} |-> cfg[k]],
   simulation |-> [k \in {"t_max", "rtol", "atol", "playback_speed",
                          "sample_rate"} |-> cfg[k]],
   control |-> [k \in {"control_type", "kp", "kd", "qc"} |-> cfg[k]],
   epoch |-> cfg["_epoch_utc"]]

\* ------------------------------------------------------------------ state
VARIABLES
  rpc,          \* receiver(): "recv" (awaiting receive_text) or "raised"
  spc,          \* sender(): "wait", "send", "idle" or "raised"
  handler,      \* websocket_endpoint: "gather" (awaiting both) or "returned"
  connOpen,     \* the channel is open (neither side has closed it)
  config_event, \* asyncio.Event
  sim_config,   \* the latched configuration
  is_paused,    \* the pause flag
  out,          \* the message the sender is about to send
  sent,         \* messages delivered to the client, in order
  received,     \* texts the receiver has taken from the channel, in order
  built,        \* _received of every configuration handed to Plant(...)
  used,         \* what the sender read of sim_config for its compute
  nCompute,     \* calls of plant.compute_states in this session
  slept,        \* keepalive sleeps completed since the last received text
  httpReq,      \* body of the last POST /api/compute
  httpResp,     \* its response
  httpMetrics,  \* the metrics of that response and the times they were taken at
  guiIn,        \* arguments of the last direct evaluate_gui call
  guiOut,       \* its result
  mergeIn,      \* loaded defaults and payload of the last merge_with_defaults call
  mergeOut,     \* its result, and the result of merging that result again
  quatIn,       \* argument of the last calls of the quaternion functions
  quatOut,      \* their results
  slerpIn,      \* arguments of the last slerp call
  slerpOut,     \* its result
  csIn,         \* initial attitude and solver run of the last direct compute_states call
  csOut,        \* quaternion norms of the states it returned
  clock,        \* the wall clock
  solved,       \* solver runs made so far, by what the solver was given
  calls,        \* the /api/compute calls made so far: body and response
  ctlIn,        \* defaults and payload of the last control-argument selection
  ctlOut,       \* the arguments passed to compute_states and what the dynamics receive
  sensor,       \* a GPSSynthesizer or GyroSynthesizer
  sensorRng,    \* the DeterministicRNG it draws from
  sensorCalls,  \* the t_sim values passed to its maybe_emit, in order
  emitted,      \* the messages it returned, in order
  runs          \* two runs of plant.run on one configuration

wsVars == <<rpc, spc, handler, connOpen, config_event, sim_config, is_paused,
            out, sent, received, built, used, nCompute, slept>>
callVars == <<slerpIn, slerpOut,
              csIn, csOut,
              clock, solved, calls,
              ctlIn, ctlOut,
              sensor, sensorRng, sensorCalls, emitted, runs>>
httpVars == <<httpReq, httpResp, httpMetrics, guiIn, guiOut,
              mergeIn, mergeOut, quatIn, quatOut, slerpIn, slerpOut,
              csIn, csOut,
              clock, solved, calls,
              ctlIn, ctlOut,
              sensor, sensorRng, sensorCalls, emitted, runs>>
vars == <<rpc, spc, handler, connOpen, config_event, sim_config, is_paused,
          out, sent, received, built, used, nCompute, slept,
          httpReq, httpResp, httpMetrics, guiIn, guiOut,
          mergeIn, mergeOut, quatIn, quatOut, slerpIn, slerpOut,
          csIn, csOut,
          clock, solved, calls,
          ctlIn, ctlOut,
          sensor, sensorRng, sensorCalls, emitted, runs>>

NoMergeIn == [d |-> _load_defaults, p |-> EmptyPayload, called |-> FALSE]
NoMergeOut == [raised |-> FALSE, cfg |-> _load_defaults,
               again_raised |-> FALSE, again |-> _load_defaults]

NoQuat == Quat(<<0, 0, 0, 1>>, 1, 1)
NoQuatIn == [q |-> NoQuat, called |-> FALSE]
NoQuatOut == [A |-> quat_to_rotmatrix(NoQuat), back |-> NoQuat,
              inv |-> NoQuat, prod |-> NoQuat, euler |-> quat_to_euler(NoQuat),
              norm |-> NoQuat, slerp |-> NoQuat]
NoSlerpIn == [q0 |-> NoQuat, q1 |-> NoQuat, t |-> 0, called |-> FALSE]
NoCsIn == [q_bi |-> <<0, 0, 0, 1>>, t |-> <<0>>, called |-> FALSE]

NoGuiIn == [t |-> <<0>>, playback_speed |-> 1, sample_rate |-> 1, called |-> FALSE]

Init ==
  /\ rpc = "recv"
  /\ spc = "wait"
  /\ handler = "gather"
  /\ connOpen = TRUE
  /\ config_event = FALSE
  /\ sim_config = Placeholder
  /\ is_paused = FALSE
  /\ out = NoRes
  /\ sent = <<>>
  /\ received = <<>>
  /\ built = <<>>
  /\ used = SenderReads(Placeholder)
  /\ nCompute = 0
  /\ slept = 0
  /\ httpReq = EmptyPayload
  /\ httpResp = NoRes
  /\ httpMetrics = NoMetrics
  /\ guiIn = NoGuiIn
  /\ guiOut = NoGui
  /\ mergeIn = NoMergeIn
  /\ mergeOut = NoMergeOut
  /\ quatIn = NoQuatIn
  /\ quatOut = NoQuatOut
  /\ slerpIn = NoSlerpIn
  /\ slerpOut = NoQuat
  /\ csIn = NoCsIn
  /\ csOut = <<>>
  /\ clock = 0
  /\ solved = {}
  /\ calls = <<>>
  /\ sensor = NoSensor
  /\ sensorRng = DeterministicRNG(0)
  /\ sensorCalls = <<>>
  /\ emitted = <<>>
  /\ runs = [i \in 1..2 |-> NotStarted]
  /\ ctlIn = [d |-> _load_defaults, p |-> EmptyPayload, cfg |-> _load_defaults,
              called |-> FALSE]
  /\ ctlOut = [args |-> ControlArgs(_load_defaults),
               dyn |-> DynamicsArgs(ControlArgs(_load_defaults))]

\* ---------------------------------------------------------------- receiver
\* The body of the receiver loop for one text: what it raises, if anything.
ReceiverRaises(m) ==
  \/ m.kind = "json_other"                       \* command.get: AttributeError
  \/ IsConfigure(m) /\ m.payload_kind = "nondict" \* payload.get: AttributeError
  \/ IsConfigure(m) /\ m.payload_kind = "dict" /\ MergeRaises(m.payload)

\* A receiver that does not stash the epoch of the payload.
Latched_no_epoch(p) == [merge_with_defaults(p) EXCEPT !._received = TRUE]

\* sim_config after a configure that merge_with_defaults accepts.
Latched(p) ==
  [merge_with_defaults(p) EXCEPT !._epoch_utc = p["epoch_utc"],
                                 !._received = TRUE]

\* receiver(): message = await websocket.receive_text() and the handling of it.
Receive(m) ==
  /\ rpc = "recv"
  /\ connOpen
  /\ Len(received) < MaxMsgs
  /\ received' = Append(received, m)
  /\ slept' = 0
  /\ rpc' = IF ReceiverRaises(m) THEN "raised" ELSE "recv"
  /\ is_paused' = IF m.kind = "object" /\ m.command = "pause" THEN TRUE
                  ELSE IF m.kind = "object" /\ m.command = "resume" THEN FALSE
                  ELSE is_paused
  /\ IF IsConfigure(m) /\ ~ReceiverRaises(m)
       THEN /\ sim_config' = Latched(m.payload)
            /\ config_event' = TRUE
       ELSE UNCHANGED <<sim_config, config_event>>
  /\ UNCHANGED <<spc, handler, connOpen, out, sent, built, used, nCompute>>
  /\ UNCHANGED httpVars

\* The peer closes the channel.
PeerClose ==
  /\ connOpen
  /\ handler = "gather"
  /\ connOpen' = FALSE
  /\ UNCHANGED <<rpc, spc, handler, config_event, sim_config, is_paused, out,
                 sent, received, built, used, nCompute, slept>>
  /\ UNCHANGED httpVars

\* receive_text() on a closed channel: WebSocketDisconnect, re-raised.
ReceiverDisconnect ==
  /\ rpc = "recv"
  /\ ~connOpen
  /\ rpc' = "raised"
  /\ UNCHANGED <<spc, handler, connOpen, config_event, sim_config, is_paused,
                 out, sent, received, built, used, nCompute, slept>>
  /\ UNCHANGED httpVars

\* ------------------------------------------------------------------ sender
\* A sender that does not wait for the configure event.
ConfigEventWait_skipped == TRUE

\* await config_event.wait(): the sender goes on once the event is set.
ConfigEventWait == config_event

\* sender(), from the return of config_event.wait() to the first
\* `await websocket.send_text(...)`: no suspension point in between.
SenderCompute ==
  /\ spc = "wait"
  /\ ConfigEventWait
  /\ \E sol \in SolutionsFor(sim_config) :
       LET r == Catch(RunStages(sim_config, sol), SenderTryStages)
       IN /\ built' = Append(built, sim_config._received)
          /\ used' = SenderReads(sim_config)
          /\ nCompute' = nCompute + (IF CalledComputeStates(r) THEN 1 ELSE 0)
          /\ IF r.kind = "raised"
               THEN spc' = "raised" /\ out' = out
               ELSE spc' = "send" /\ out' = r
  /\ UNCHANGED <<rpc, handler, connOpen, config_event, sim_config, is_paused,
                 sent, received, slept>>
  /\ UNCHANGED httpVars

\* await websocket.send_text(json.dumps(...)).  On a closed channel the send
\* raises (and so does the send of the error text in the except clause), or
\* the server drops the text silently.
SenderSend ==
  /\ spc = "send"
  /\ \/ connOpen /\ sent' = Append(sent, out) /\ spc' = "idle"
     \/ ~connOpen /\ sent' = sent /\ spc' \in {"raised", "idle"}
  /\ out' = NoRes
  /\ UNCHANGED <<rpc, handler, connOpen, config_event, sim_config, is_paused,
                 received, built, used, nCompute, slept>>
  /\ UNCHANGED httpVars

\* while True: await asyncio.sleep(1.0)
SenderSleep ==
  /\ spc = "idle"
  /\ slept < MaxSleeps
  /\ slept' = slept + 1
  /\ UNCHANGED <<rpc, spc, handler, connOpen, config_event, sim_config,
                 is_paused, out, sent, received, built, used, nCompute>>
  /\ UNCHANGED httpVars

\* ------------------------------------------------------ websocket_endpoint
\* await asyncio.gather(receiver(), sender()): the first exception of either
\* task is propagated to the handler, which logs it and returns; the other
\* task is not cancelled.  The server closes the channel when the handler
\* has returned.
HandlerReturn ==
  /\ handler = "gather"
  /\ rpc = "raised" \/ spc = "raised"
  /\ handler' = "returned"
  /\ connOpen' = FALSE
  /\ UNCHANGED <<rpc, spc, config_event, sim_config, is_paused, out, sent,
                 received, built, used, nCompute, slept>>
  /\ UNCHANGED httpVars

\* ------------------------------------------------------- request/response
\* The statements before compute_states, compute_states and evaluate_gui
\* take setup, compute and gui units of time.  The handler keeps nothing
\* between requests, so a behaviour makes one request.
ApiCompute ==
  /\ httpResp = NoRes
  /\ \E body \in Payloads :
       \E sol \in (IF MergeRaises(body) THEN {NoSol}
                   ELSE SolutionsFor(merge_with_defaults(body))) :
         /\ httpReq' = body
         /\ httpResp' = api_compute(body, sol)
         /\ IF api_compute(body, sol).kind = "dataset"
              THEN \E setup \in 0..MaxDur, compute \in 0..MaxDur, gui \in 0..MaxDur :
                     httpMetrics' = Metrics(merge_with_defaults(body), sol,
                                            Timeline(setup, compute, gui))
              ELSE httpMetrics' = NoMetrics
  /\ UNCHANGED <<guiIn, guiOut, mergeIn, mergeOut, quatIn, quatOut>>
  /\ UNCHANGED callVars
  /\ UNCHANGED wsVars

\* Trajectories and sampling settings of direct evaluate_gui calls.
Trajectories == UNION {{x.t : x \in Solutions(tm)} : tm \in -1..MaxT}
Rates == -1..MaxRate

\* plant.evaluate_gui(t, y, playback_speed, sample_rate) called directly.
EvaluateGui ==
  /\ \E t \in Trajectories, ps \in Rates, sr \in Rates :
       /\ guiIn' = [t |-> t, playback_speed |-> ps, sample_rate |-> sr,
                    called |-> TRUE]
       /\ guiOut' = evaluate_gui(t, ps, sr)
  /\ UNCHANGED <<httpReq, httpResp, httpMetrics, mergeIn, mergeOut, quatIn, quatOut>>
  /\ UNCHANGED callVars
  /\ UNCHANGED wsVars

\* Payloads of direct merge_with_defaults calls: every kind of control_type
\* value (each alias, an unknown string, the empty string, numbers, booleans,
\* aliases in another case), the ctrl key, a nested control object with and
\* without top-level control keys beside it, top-level overrides, overrides in
\* the nested shape of the configuration, and a key the code does not read.
MergePayloads ==
  {EmptyPayload}
  \cup {Override("control_type", Str(a)) :
          a \in {"none", "zero_torque", "inertial", "inertial_linear", "tracking",
                 "inertial_nonlinear", "nonlinear_tracking", "bogus", "",
                 " Tracking ", "NONE"}}
  \cup {Override("control_type", Num(x)) : x \in 0..2}
  \cup {Override("control_type", Bool(b)) : b \in BOOLEAN}
  \cup {Override("ctrl", Str("tracking")),
        [Override("control_type", Str("")) EXCEPT !["ctrl"] = Str("tracking")]}
  \cup {[Override("control", Dict) EXCEPT !["control.control_type"] = Str("tracking")],
        [Override("control", Dict) EXCEPT !["control.kp"] = Num(2)],
        [Override("control", Dict) EXCEPT !["kp"] = Num(2)],
        [Override("control", Dict) EXCEPT !["control.kp"] = Str("abc")],
        [Override("control", Str("abc")) EXCEPT !["kp"] = Num(2)]}
  \cup {Override("t_max", Num(MaxT)), Override("inertia", List(<<2, 3, 4>>)),
        Override("shape", List(<<2, 2, 2>>)),
        Override("q_bi", List(<<1, 0, 0, 0>>)),
        Override("omega_bi_radps", List(<<0, 0, 0>>)),
        Override("dt_sim", Num(2)), Override("playback_speed", Num(2)),
        Override("sample_rate", Num(1)), Override("rtol", Num(2)),
        Override("atol", Num(2)), Override("kp", Num(2)), Override("kd", Num(2)),
        Override("qc", List(<<1, 0, 0, 0>>)), Override("kp", Str("abc")),
        [Override("t_max", Num(MaxT)) EXCEPT !["kp"] = Num(2)]}
  \cup {Override("simulation.t_max", Num(MaxT)),
        Override("spacecraft.inertia", List(<<2, 3, 4>>)),
        [Override("simulation.t_max", Num(MaxT)) EXCEPT !["t_max"] = Num(1)]}
  \cup {Override("unknown", Str("x")),
        [Override("unknown", Str("x")) EXCEPT !["t_max"] = Num(MaxT)]}

\* merge_with_defaults(payload) called directly on a loaded preset, and called
\* again on its own result.  The defaults are loaded anew by every call and
\* nothing is kept between calls, so a behaviour makes one call.
MergeWithDefaults ==
  /\ ~mergeIn.called
  /\ \E d \in Presets, p \in MergePayloads :
       /\ mergeIn' = [d |-> d, p |-> p, called |-> TRUE]
       /\ mergeOut' =
            IF MergeRaises(p) THEN [NoMergeOut EXCEPT !.raised = TRUE]
            ELSE LET cfg == MergeWith(d, p)
                 IN [raised |-> FALSE, cfg |-> cfg,
                     again_raised |-> MergeRaises(AsPayload(cfg)),
                     again |-> IF MergeRaises(AsPayload(cfg)) THEN _load_defaults
                               ELSE MergeWith(d, AsPayload(cfg))]
  /\ UNCHANGED <<httpReq, httpResp, httpMetrics, guiIn, guiOut, quatIn, quatOut>>
  /\ UNCHANGED callVars
  /\ UNCHANGED wsVars

\* Integer vectors of the quaternion calls.
Vecs == {<<a, b, c, d>> : a \in -MaxQ..MaxQ, b \in -MaxQ..MaxQ,
                          c \in -MaxQ..MaxQ, d \in -MaxQ..MaxQ}

\* The quaternion functions called on q: q is an integer quaternion v (unit
\* or not, the zero quaternion included) or the unit quaternion v / |v|.
\* rotmatrix_to_quaternion is applied to the matrix of a unit quaternion;
\* slerp goes from q to the identity and is taken at t = 0.
\* The functions keep no state, so a behaviour makes one call.
QuatOps ==
  /\ ~quatIn.called
  /\ \E v \in Vecs : \E rad \in {1, NormSq(v)} :
       /\ rad > 0
       /\ LET q == Quat(v, 1, rad)
          IN /\ quatIn' = [q |-> q, called |-> TRUE]
             /\ quatOut' =
                  [A |-> quat_to_rotmatrix(q),
                   back |-> IF quat_is_normalized(q)
                            THEN rotmatrix_to_quaternion(quat_to_rotmatrix(q))
                            ELSE NoQuat,
                   inv |-> quat_inv(q),
                   prod |-> quat_multiply_cross(q, quat_inv(q)),
                   euler |-> quat_to_euler(q),
                   norm |-> quat_normalize(q),
                   slerp |-> slerp(q, NoQuat, 0)]
  /\ UNCHANGED <<httpReq, httpResp, httpMetrics, guiIn, guiOut, mergeIn, mergeOut>>
  /\ UNCHANGED callVars
  /\ UNCHANGED wsVars

\* Vectors of the slerp calls: components in -1..1, and two vectors that are
\* within arccos(0.9995) of the scalar axis without lying on it.
SlerpVecs ==
  {<<a, b, c, d>> : a \in -1..1, b \in -1..1, c \in -1..1, d \in -1..1}
  \cup {<<0, 0, 1, 40>>, <<0, 0, -1, -40>>}

\* Arguments of slerp: the unit quaternions v / |v| and the zero quaternion.
SlerpQuats ==
  {Quat(v, 1, IF NormSq(v) = 0 THEN 1 ELSE NormSq(v)) : v \in SlerpVecs}

\* slerp(q0, q1, t) called at an end point.  The function keeps no state, so
\* a behaviour makes one call.
Slerp ==
  /\ ~slerpIn.called
  /\ \E q0 \in SlerpQuats, q1 \in SlerpQuats, t \in {0, 1} :
       /\ slerpIn' = [q0 |-> q0, q1 |-> q1, t |-> t, called |-> TRUE]
       /\ slerpOut' = slerp(q0, q1, t)
  /\ UNCHANGED <<httpReq, httpResp, httpMetrics, guiIn, guiOut, mergeIn, mergeOut,
                 quatIn, quatOut>>
  /\ UNCHANGED <<csIn, csOut, clock, solved, calls, ctlIn, ctlOut>>
  /\ UNCHANGED <<sensor, sensorRng, sensorCalls, emitted, runs>>
  /\ UNCHANGED wsVars

\* initial_conditions.q_bi of direct compute_states calls: Plant.__init__
\* takes the list as it is.
QbiVecs == {v \in Vecs : v[1] = 0 /\ v[2] = 0}

\* plant.compute_states(t_max) called directly on a Plant whose initial
\* attitude is q_bi.  Nothing is kept between calls, so a behaviour makes
\* one call.
ComputeStates ==
  /\ ~csIn.called
  /\ \E q_bi \in QbiVecs, tmax \in 1..MaxT :
       \E sol \in Solutions(tmax) :
         \E y \in SolveIvpQuatNorms(q_bi, sol.t) :
           /\ csIn' = [q_bi |-> q_bi, t |-> sol.t, called |-> TRUE]
           /\ csOut' = compute_states_y(y)
  /\ UNCHANGED <<httpReq, httpResp, httpMetrics, guiIn, guiOut, mergeIn, mergeOut,
                 quatIn, quatOut>>
  /\ UNCHANGED <<slerpIn, slerpOut, clock, solved, calls, ctlIn, ctlOut>>
  /\ UNCHANGED <<sensor, sensorRng, sensorCalls, emitted, runs>>
  /\ UNCHANGED wsVars

\* Bodies of repeated /api/compute calls.
CallBodies ==
  {EmptyPayload,
   Override("t_max", Num(1)),
   [Override("t_max", Num(1)) EXCEPT !["sample_rate"] = Num(1)],
   Override("t_max", Str("abc")),
   Override("epoch_utc", Str("2025-01-01 00:00:00"))}

\* One /api/compute call at the current time, among other calls and the
\* commands of a streaming session.
ApiComputeCall ==
  /\ Len(calls) < MaxCalls
  /\ \E body \in CallBodies :
       LET cfg == merge_with_defaults(body)
       IN \E sol \in (IF MergeRaises(body) THEN {NoSol}
                      ELSE solve_ivp(solved, SolverInputs(cfg), SolutionsFor(cfg))) :
            LET r == api_compute(body, sol)
            IN /\ calls' = Append(calls,
                     [body |-> body, kind |-> r.kind,
                      arrays |-> IF r.kind = "dataset"
                                 THEN DatasetArrays(cfg, sol) ELSE NoArrays,
                      input_time_str |-> IF r.kind = "dataset"
                                         THEN input_time_str(body, clock)
                                         ELSE None])
               /\ solved' = IF r.stage \in {"", "evaluate_gui"}
                             THEN solved \cup {<<SolverInputs(cfg), sol>>}
                             ELSE solved
  /\ UNCHANGED clock
  /\ UNCHANGED <<httpReq, httpResp, httpMetrics, guiIn, guiOut, mergeIn, mergeOut,
                 quatIn, quatOut>>
  /\ UNCHANGED <<slerpIn, slerpOut, csIn, csOut, ctlIn, ctlOut>>
  /\ UNCHANGED <<sensor, sensorRng, sensorCalls, emitted, runs>>
  /\ UNCHANGED wsVars

\* Time passes.
Tick ==
  /\ clock < MaxClock
  /\ clock' = clock + 1
  /\ UNCHANGED <<solved, calls>>
  /\ UNCHANGED <<httpReq, httpResp, httpMetrics, guiIn, guiOut, mergeIn, mergeOut,
                 quatIn, quatOut>>
  /\ UNCHANGED <<slerpIn, slerpOut, csIn, csOut, ctlIn, ctlOut>>
  /\ UNCHANGED <<sensor, sensorRng, sensorCalls, emitted, runs>>
  /\ UNCHANGED wsVars

\* The configure command of a streaming session that runs beside the calls.
OtherConfigure == Msg("object", "configure", "dict", Override("t_max", Num(1)))

\* Defaults of the control-argument selection: the presets, and a preset
\* without a control type.
ControlPresets ==
  Presets \cup {[_load_defaults EXCEPT !.control_type = None]}

\* Payloads of the control-argument selection: those of the merge, and
\* payloads with an empty qc.
ControlPayloads ==
  MergePayloads
  \cup {Override("qc", List(<<>>)),
        [Override("qc", List(<<>>)) EXCEPT !["kp"] = Num(2), !["kd"] = Num(1)],
        [Override("qc", List(<<>>)) EXCEPT !["control_type"] = Str("tracking"),
                                           !["kp"] = Num(2)],
        [Override("control_type", Str("tracking")) EXCEPT !["kp"] = Num(2)]}

\* The control arguments an endpoint passes for a payload merged with the
\* defaults, and what compute_states hands to the dynamics.  Nothing is kept
\* between computes, so a behaviour makes one selection.
SelectControl ==
  /\ ~ctlIn.called
  /\ \E d \in ControlPresets, p \in ControlPayloads :
       /\ ~MergeRaises(p)
       /\ ctlIn' = [d |-> d, p |-> p, cfg |-> MergeWith(d, p), called |-> TRUE]
       /\ ctlOut' = [args |-> ControlArgs(MergeWith(d, p)),
                     dyn |-> DynamicsArgs(ControlArgs(MergeWith(d, p)))]
  /\ UNCHANGED <<httpReq, httpResp, httpMetrics, guiIn, guiOut, mergeIn, mergeOut,
                 quatIn, quatOut>>
  /\ UNCHANGED <<slerpIn, slerpOut, csIn, csOut, clock, solved, calls>>
  /\ UNCHANGED <<sensor, sensorRng, sensorCalls, emitted, runs>>
  /\ UNCHANGED wsVars

\* A synthesizer is built on a generator of its own.
SensorNew ==
  /\ sensor = NoSensor
  /\ \E kind \in {"gps", "gyro"}, period \in 1..MaxPeriod, bias_rw \in BOOLEAN :
       /\ kind = "gps" => ~bias_rw
       /\ sensor' = Synthesizer(kind, period, bias_rw)
  /\ sensorRng' = DeterministicRNG(1)
  /\ UNCHANGED <<sensorCalls, emitted, runs>>
  /\ UNCHANGED <<httpReq, httpResp, httpMetrics, guiIn, guiOut, mergeIn, mergeOut,
                 quatIn, quatOut>>
  /\ UNCHANGED <<slerpIn, slerpOut, csIn, csOut, clock, solved, calls,
                 ctlIn, ctlOut>>
  /\ UNCHANGED wsVars

\* maybe_emit(t_sim, ...) with a t_sim that is not below the one before.
MaybeEmit(t_sim) ==
  /\ sensor # NoSensor
  /\ Len(sensorCalls) < MaxSensorCalls
  /\ sensorCalls # <<>> => t_sim >= Last(sensorCalls)
  /\ sensorCalls' = Append(sensorCalls, t_sim)
  /\ sensor' = AfterEmit(sensor, t_sim)
  /\ emitted' = IF Emits(sensor, t_sim)
                 THEN Append(emitted, SensorMsg(sensor, t_sim, sensorRng))
                 ELSE emitted
  /\ sensorRng' = IF Emits(sensor, t_sim)
                   THEN normal(sensorRng, DrawSize(sensor))
                   ELSE sensorRng
  /\ UNCHANGED runs
  /\ UNCHANGED <<httpReq, httpResp, httpMetrics, guiIn, guiOut, mergeIn, mergeOut,
                 quatIn, quatOut>>
  /\ UNCHANGED <<slerpIn, slerpOut, csIn, csOut, clock, solved, calls,
                 ctlIn, ctlOut>>
  /\ UNCHANGED wsVars

\* Configurations of plant.run: dt_sim, t_final, 1 / rate_hz of the two
\* sensors, whether the gyro bias walks, rng_seed.
PlantConfigs ==
  [dt_sim : 1..2, t_final : 0..MaxTime, gps : 1..MaxPeriod, gyro : 1..MaxPeriod,
   bias_rw : BOOLEAN, rng_seed : 1..2]

\* The first run starts on a configuration; the second starts on the same
\* configuration once the first has ended.
PlantStart(i) ==
  /\ runs[i].pc = "start"
  /\ \/ i = 1 /\ \E cfg \in PlantConfigs : runs' = [runs EXCEPT ![1] = Started(cfg)]
     \/ i = 2 /\ runs[1].pc \in {"done", "raised"}
              /\ runs' = [runs EXCEPT ![2] = Started(runs[1].cfg)]
  /\ UNCHANGED <<sensor, sensorRng, sensorCalls, emitted>>
  /\ UNCHANGED <<httpReq, httpResp, httpMetrics, guiIn, guiOut, mergeIn, mergeOut,
                 quatIn, quatOut>>
  /\ UNCHANGED <<slerpIn, slerpOut, csIn, csOut, clock, solved, calls,
                 ctlIn, ctlOut>>
  /\ UNCHANGED wsVars

\* One pass of the loop of a run.
PlantIterate(i) ==
  /\ runs[i].pc = "loop"
  /\ runs' = [runs EXCEPT ![i] = Iterate(runs[i])]
  /\ UNCHANGED <<sensor, sensorRng, sensorCalls, emitted>>
  /\ UNCHANGED <<httpReq, httpResp, httpMetrics, guiIn, guiOut, mergeIn, mergeOut,
                 quatIn, quatOut>>
  /\ UNCHANGED <<slerpIn, slerpOut, csIn, csOut, clock, solved, calls,
                 ctlIn, ctlOut>>
  /\ UNCHANGED wsVars

\* ---------------------------------------------------------- specifications
Next ==
  \/ \E m \in Msgs : Receive(m)
  \/ PeerClose
  \/ ReceiverDisconnect
  \/ SenderCompute
  \/ SenderSend
  \/ SenderSleep
  \/ HandlerReturn

\* One streaming session.
Spec == Init /\ [][Next]_vars

NextHttp == ApiCompute

\* Requests to /api/compute.
SpecHttp == Init /\ [][NextHttp]_vars

NextGui == EvaluateGui

\* Direct calls of the resampler.
SpecGui == Init /\ [][NextGui]_vars

NextMerge == MergeWithDefaults

\* Direct calls of the configuration merge.
SpecMerge == Init /\ [][NextMerge]_vars

NextQuat == QuatOps

\* Direct calls of the quaternion functions.
SpecQuat == Init /\ [][NextQuat]_vars

NextSolve == ComputeStates

\* Direct calls of compute_states.
SpecSolve == Init /\ [][NextSolve]_vars

NextCalls ==
  \/ ApiComputeCall
  \/ Tick
  \/ Receive(OtherConfigure)
  \/ SenderCompute

\* /api/compute calls over time, beside a streaming session.
SpecCalls == Init /\ [][NextCalls]_vars

NextControl == SelectControl

\* The control policy handed to compute_states.
SpecControl == Init /\ [][NextControl]_vars

NextSensor ==
  \/ SensorNew
  \/ \E t_sim \in 0..MaxTime : MaybeEmit(t_sim)

\* A sensor synthesizer called over time.
SpecSensor == Init /\ [][NextSensor]_vars

NextPlant ==
  \/ \E i \in 1..2 : PlantStart(i)
  \/ \E i \in 1..2 : PlantIterate(i)

\* Two runs of the legacy plant loop.
SpecPlant == Init /\ [][NextPlant]_vars

NextSlerp == Slerp

\* Direct calls of slerp.
SpecSlerp == Init /\ [][NextSlerp]_vars

TypeOK ==
  /\ rpc \in {"recv", "raised"}
  /\ spc \in {"wait", "send", "idle", "raised"}
  /\ handler \in {"gather", "returned"}
  /\ Len(sent) <= Len(built)

\* ================================================================== claims
\* configure commands the receiver has taken from the channel.
NumConfigures ==
  Cardinality({i \in DOMAIN received : IsConfigure(received[i])})

\* A merged configuration fails a bound check of the error taxonomy.
BoundFails(cfg) ==
  \/ cfg.inertia.tag = "list" /\ \E i \in DOMAIN cfg.inertia.l : cfg.inertia.l[i] <= 0
  \/ FloatOk(cfg.t_max) /\ cfg.t_max.n <= 0
  \/ FloatOk(cfg.rtol) /\ cfg.rtol.n < 0
  \/ FloatOk(cfg.atol) /\ cfg.atol.n < 0

\* A configure whose payload makes the configuration invalid: a non-numeric
\* or out-of-range field.
InvalidConfigure(m) ==
  /\ IsConfigure(m)
  /\ m.payload_kind = "dict"
  /\ \/ MergeRaises(m.payload)
     \/ LET cfg == merge_with_defaults(m.payload)
        IN \/ PlantInitRaises(cfg)
           \/ FloatsRaise(cfg)
           \/ BoundFails(cfg)
           \/ FloatOk(cfg.sample_rate) /\ cfg.sample_rate.n <= 0
           \/ FloatOk(cfg.playback_speed) /\ cfg.playback_speed.n <= 0

\* MalformedMessage: text that is not JSON, or JSON without "command".
Malformed(m) ==
  \/ m.kind \in {"text", "json_other"}
  \/ m.kind = "object" /\ m.command = ""

\* C1: in a streaming session compute_states runs exactly once per configure:
\* when n configure commands have been received and the worker is idle again
\* (it has slept through a keepalive period, the channel is open and the
\* receiver is running), compute_states has been called n times and n
\* messages have been sent.
C1_OncePerConfigure ==
  (spc = "idle" /\ slept >= 1 /\ connOpen /\ rpc = "recv")
    => (nCompute = NumConfigures /\ Len(sent) = NumConfigures)

\* C2: after the first configure, whatever its payload, the sender ends its
\* run in the idle loop having sent exactly one message, a {dataset, metrics}
\* or an {error} (while the channel is open).
C2_ExactlyOneMessage ==
  (NumConfigures >= 1 /\ connOpen /\ spc \in {"idle", "raised"})
    => /\ spc = "idle"
       /\ Len(sent) = 1
       /\ Keys(sent[1]) \in {{"dataset", "metrics"}, {"error"}}

\* C3: a configure with an invalid configuration is answered by {error} and
\* leaves the session open: neither task terminates and the receiver keeps
\* accepting commands.
C3_InvalidConfigureKeepsSession ==
  (/\ Len(received) = 1
   /\ InvalidConfigure(received[1])
   /\ connOpen)
    => /\ rpc = "recv"
       /\ spc # "raised"
       /\ handler = "gather"
       /\ spc = "idle" => (Len(sent) = 1 /\ Keys(sent[1]) = {"error"})

\* C4: every malformed incoming message is discarded by the receiver: the
\* step that receives it changes neither the latched configuration, the
\* configure event nor the pause flag, and terminates no task.
C4_MalformedDiscarded ==
  [][(/\ Len(received') = Len(received) + 1
      /\ Malformed(received'[Len(received')]))
       => /\ sim_config' = sim_config
          /\ config_event' = config_event
          /\ is_paused' = is_paused
          /\ rpc' = "recv"
          /\ spc' = spc
          /\ handler' = handler]_vars

\* C5: integration never ends early without an error: a dataset is returned
\* only when the solver succeeded and its last time equals t_max.
C5_NoTruncatedDataset ==
  httpResp.kind = "dataset"
    => (httpResp.status = 0 /\ httpResp.tLast = httpResp.tMax)

\* C6: receiver and sender are joined: once the handler has returned, both
\* tasks of the session have terminated; none keeps waiting, sleeping or
\* sending.
C6_TasksJoined ==
  handler = "returned" => (rpc = "raised" /\ spc = "raised")

\* C7: no dataset or error message is sent, and no compute is started, before
\* a configure command has been received in the session; the simulator is
\* never built from the placeholder configuration.
C7_NothingBeforeConfigure ==
  /\ (Len(sent) > 0 \/ out # NoRes \/ nCompute > 0 \/ Len(built) > 0)
       => NumConfigures >= 1
  /\ \A i \in DOMAIN built : built[i] = TRUE

\* C7 witness: a dataset has been sent after a configure.
C7_Witness ==
  Len(sent) = 1 /\ Keys(sent[1]) = {"dataset", "metrics"} /\ NumConfigures = 1

\* C8: compute(config) never raises and returns exactly one of the two
\* shapes {dataset, metrics} and {error}; every failure of merge, simulator
\* construction, conversion, integration or resampling becomes {error}.
C8_ComputeTotal ==
  httpResp.kind # "none"
    => /\ httpResp.kind # "raised"
       /\ Keys(httpResp) \in {{"dataset", "metrics"}, {"error"}}
       /\ httpResp.stage \in AllStages => Keys(httpResp) = {"error"}

\* C8 witness: a failure of the simulator construction returned as {error}.
C8_Witness ==
  httpResp.kind = "error" /\ httpResp.stage = "Plant"

\* C9: compute(config) returns {error} whenever the merged configuration
\* fails a bound check (inertia entry <= 0, t_max <= 0, rtol < 0, atol < 0).
C9_BoundCheckRejected ==
  (/\ httpResp.kind # "none"
   /\ ~MergeRaises(httpReq)
   /\ BoundFails(merge_with_defaults(httpReq)))
    => httpResp.kind = "error"

\* C10: evaluate_gui fails for every playback_speed <= 0 and every
\* sample_rate <= 0, whatever the trajectory.
C10_InvalidSampling ==
  (guiIn.called /\ (guiIn.playback_speed <= 0 \/ guiIn.sample_rate <= 0))
    => guiOut.raised

\* ------------------------------------------------------------- resampler
\* A direct evaluate_gui call with positive playback_speed and sample_rate
\* on a trajectory that ends at a positive time.
PositiveSampling ==
  /\ guiIn.called
  /\ guiIn.playback_speed > 0 /\ guiIn.sample_rate > 0
  /\ Last(guiIn.t) > 0

\* t_end * sample_rate, the numerator of t_end over the denominator
\* sample_rate of the sample times.
EndNumerator == Last(guiIn.t) * guiIn.sample_rate

\* C11: for positive playback_speed and sample_rate and t_end > 0 the sample
\* times are k * delta for k = 0..M-1 with delta = playback_speed /
\* sample_rate, every one of them is strictly below t_end, and M is
\* ceil(t_end / delta), the least count whose next sample would reach t_end.
C11_SampleTimes ==
  PositiveSampling =>
    LET ts == guiOut.t_sampled
    IN /\ ~guiOut.raised
       /\ guiOut.M = Len(ts)
       /\ \A k \in DOMAIN ts : /\ ts[k] = (k - 1) * guiIn.playback_speed
                               /\ ts[k] < EndNumerator
       /\ guiOut.M >= 1
       /\ guiOut.M * guiIn.playback_speed >= EndNumerator

\* A call where t_end is a whole multiple of delta and there are several
\* samples: the end point itself is left out.
C11_Witness ==
  /\ PositiveSampling
  /\ EndNumerator % guiIn.playback_speed = 0
  /\ guiOut.M >= 2
  /\ guiOut.t_sampled[guiOut.M] + guiIn.playback_speed = EndNumerator

\* C12 as stated: the number of samples is floor(t_end * sample_rate /
\* playback_speed) for all positive t_end, sample_rate and playback_speed.
C12_FloorCount ==
  PositiveSampling =>
    guiOut.M = EndNumerator \div guiIn.playback_speed

\* C12, amended: the number of samples is ceil(t_end * sample_rate /
\* playback_speed): the floor when the quotient is an integer, the floor plus
\* one when it is not.
C12_CeilCount ==
  PositiveSampling =>
    guiOut.M = (EndNumerator \div guiIn.playback_speed)
               + (IF EndNumerator % guiIn.playback_speed = 0 THEN 0 ELSE 1)

\* A call where t_end * sample_rate / playback_speed is not an integer.
C12_Witness ==
  /\ PositiveSampling
  /\ EndNumerator % guiIn.playback_speed # 0
  /\ guiOut.M = (EndNumerator \div guiIn.playback_speed) + 1

\* C13: for every trajectory and every valid sampling setting, every
\* per-channel array the resampler returns (the r, v, w, h channels, the
\* quaternion channels and the Euler channels) has exactly the length of
\* t_sampled.
C13_ChannelLengths ==
  (PositiveSampling /\ ~guiOut.raised) =>
    /\ guiOut.chan = guiOut.M
    /\ guiOut.q_sampled = guiOut.M
    /\ Len(guiOut.euler_sampled) = 2
    /\ guiOut.euler_sampled[2] = guiOut.M

\* ---------------------------------------------------- configuration merge
\* A direct merge_with_defaults call that returned.
Merged == mergeIn.called /\ ~mergeOut.raised

\* The ten top-level override keys; each is also the name of its field.
SimpleKeys ==
  {"inertia", "shape", "q_bi", "omega_bi_radps", "dt_sim", "t_max",
   "playback_speed", "sample_rate", "rtol", "atol"}

ControlKeys == {"control_type", "ctrl", "kp", "kd", "qc"}

\* The fields of a merged configuration.
Fields == DOMAIN _load_defaults \ {"_epoch_utc", "_received"}

\* The variant the alias table of the specification gives a value:
\* 1 LinearTracking, 2 NonlinearTracking, 0 ZeroTorque for the zero-torque
\* aliases and for any other value.
AliasVariant(v) ==
  IF v.tag = "str" /\ LowerStrip(v.s) \in {"inertial", "inertial_linear", "tracking"}
  THEN 1
  ELSE IF v.tag = "str"
          /\ LowerStrip(v.s) \in {"inertial_nonlinear", "nonlinear_tracking"}
  THEN 2
  ELSE 0

\* C14: for every control_type value present in the payload the merged
\* configuration selects the variant of the alias table, and ZeroTorque for
\* any other value (unknown string, empty string, number, boolean),
\* independently of the control type in the defaults.
C14_ControlTypeNormalized ==
  (Merged /\ CtrlGet(mergeIn.p, "control_type") # None) =>
    _map_control_type(mergeOut.cfg.control_type)
      = AliasVariant(CtrlGet(mergeIn.p, "control_type"))

NamedBy(p, f) ==
  \/ f \in SimpleKeys /\ p[f] # None
  \/ f \in {"control_type", "kp", "kd", "qc"}
       /\ (p[f] # None \/ p["control." \o f] # None)
  \/ f = "control_type" /\ (p["ctrl"] # None \/ p["control.ctrl"] # None)

\* C16: each recognised key present in the payload replaces exactly its own
\* field (the control type by its variant, kp and kd by their float), every
\* field not named by a key present in the payload equals its default, and
\* an unrecognised key changes nothing.
C16_ByField ==
  Merged =>
    /\ \A k \in SimpleKeys \cup {"qc"} :
         mergeIn.p[k] # None => mergeOut.cfg[k] = mergeIn.p[k]
    /\ \A k \in {"kp", "kd"} :
         mergeIn.p[k] # None => mergeOut.cfg[k] = Float(mergeIn.p[k])
    /\ mergeIn.p["control_type"] # None =>
         mergeOut.cfg.control_type = Num(AliasVariant(mergeIn.p["control_type"]))
    /\ \A f \in Fields :
         ~NamedBy(mergeIn.p, f) => mergeOut.cfg[f] = mergeIn.d[f]
    /\ mergeOut.cfg = MergeWith(mergeIn.d, [mergeIn.p EXCEPT !["unknown"] = None])

\* C17 as stated: merging an empty override returns the defaults, and
\* merging the result again returns the result: merge(merge(p)) = merge(p).
C17_Idempotent ==
  Merged =>
    /\ mergeIn.p = EmptyPayload => mergeOut.cfg = mergeIn.d
    /\ ~mergeOut.again_raised
    /\ mergeOut.again = mergeOut.cfg

\* C17, amended: merging an empty override returns the defaults.  Merging the
\* result again reads only its control section: merge(merge(p)) keeps kp, kd
\* and qc of merge(p), has every other field at its default, and its control
\* type is ZeroTorque when merge(p) holds a normalised 1 or 2 and the type of
\* the defaults otherwise.
C17_MergeAgain ==
  Merged =>
    /\ mergeIn.p = EmptyPayload => mergeOut.cfg = mergeIn.d
    /\ ~mergeOut.again_raised
    /\ \A f \in {"kp", "kd", "qc"} : mergeOut.again[f] = mergeOut.cfg[f]
    /\ \A f \in Fields \ {"control_type", "kp", "kd", "qc"} :
         mergeOut.again[f] = mergeIn.d[f]
    /\ _map_control_type(mergeOut.again.control_type)
         = IF mergeOut.cfg.control_type.tag = "num"
              /\ mergeOut.cfg.control_type.n # 0
           THEN 0
           ELSE _map_control_type(mergeIn.d.control_type)

\* A payload whose control type was normalised to LinearTracking and whose
\* t_max override took effect: merged again, both are lost.
C17_Witness ==
  /\ Merged
  /\ mergeOut.cfg.control_type = Num(1)
  /\ mergeOut.again.control_type = Num(0)
  /\ mergeOut.again.t_max = mergeIn.d.t_max

\* ------------------------------------------------------ quaternion algebra
\* Equality of two quaternions over the same rad, by cross-multiplication.
QuatEq(a, b) ==
  /\ a.rad = b.rad
  /\ a.den > 0 /\ b.den > 0
  /\ \A i \in 1..4 : a.x[i] * b.den = b.x[i] * a.den

\* The quaternion functions were called on a unit quaternion.
UnitCall == quatIn.called /\ quat_is_normalized(quatIn.q)

\* C18: for every unit quaternion q, whichever branch rot_to_quat takes,
\* rot_to_quat(R(q)) with R(q) = xi(q)^T psi(q) is q or -q.
C18_RoundTrip ==
  UnitCall =>
    \/ QuatEq(quatOut.back, quatIn.q)
    \/ QuatEq(quatOut.back, QuatNeg(quatIn.q))

\* C19: for every non-zero quaternion q, unit or not, q (x) inv(q) with the
\* operator [psi(q) | q] and inv(q) = conj(q) / |q|^2 is the identity
\* (0, 0, 0, 1); equivalently [psi(q) | q] conj(q) = (0, 0, 0, |q|^2).
C19_InverseProduct ==
  (quatIn.called /\ NormSq(quatIn.q.x) # 0) =>
    /\ quatOut.inv.den > 0
    /\ QuatEq(quatOut.prod, NoQuat)
    /\ MatVec(quat_multiply_cross_operator(quatIn.q.x), quat_conj(quatIn.q).x)
         = <<0, 0, 0, NormSq(quatIn.q.x)>>

\* A quaternion that is not unit and has no zero component, multiplied by
\* its inverse.
C19_Witness ==
  /\ quatIn.called
  /\ ~quat_is_normalized(quatIn.q)
  /\ \A i \in 1..4 : quatIn.q.x[i] # 0
  /\ quatOut.inv.den > 1
  /\ quatOut.prod.x = <<0, 0, 0, quatOut.prod.den>>

\* C20: for q = (0, 0, sin(theta/2), cos(theta/2)) with 0 < theta < pi,
\* quat_to_euler(q) is roll = 0, pitch = 0, yaw = +theta: the arguments of the
\* yaw arctan2 are (sin(theta), cos(theta)), so A[1,0] has the sign of
\* +sin(theta).  For q = (0, 0, a, b) / sqrt(a^2 + b^2), sin(theta) is
\* 2ab / (a^2 + b^2) and cos(theta) is (b^2 - a^2) / (a^2 + b^2).
C20_YawOfZRotation ==
  (UnitCall /\ quatIn.q.x[1] = 0 /\ quatIn.q.x[2] = 0
     /\ quatIn.q.x[3] > 0 /\ quatIn.q.x[4] > 0) =>
    LET a == quatIn.q.x[3]
        b == quatIn.q.x[4]
        e == quatOut.euler
    IN /\ e.den = a * a + b * b
       /\ e.roll[1] = 0 /\ e.roll[2] > 0
       /\ e.pitch = 0
       /\ e.yaw = <<2 * a * b, b * b - a * a>>

\* ------------------------------------------------- degenerate quaternions
\* The 3x3 identity matrix over the denominator 1.
IdentityMatrix ==
  [a |-> [i \in 1..3 |-> [j \in 1..3 |-> IF i = j THEN 1 ELSE 0]], den |-> 1]

\* C21: no quaternion operation fails on a zero-norm quaternion: normalize
\* returns the identity (0, 0, 0, 1); inv, slerp and the conversions return a
\* finite value (no division by zero) and treat the argument as the identity.
C21_DegenerateInputs ==
  (quatIn.called /\ NormSq(quatIn.q.x) = 0) =>
    /\ quatOut.norm = NoQuat
    /\ quatOut.slerp = NoQuat
    /\ quatOut.inv.den # 0
    /\ QuatEq(quatOut.inv, NoQuat)
    /\ quatOut.A = IdentityMatrix
    /\ quatOut.euler = quat_to_euler(NoQuat)

\* ------------------------------------------------------------------ slerp
\* dot(q0, q1) of the arguments of the slerp call, times the positive
\* sqrt(q0.rad * q1.rad).
SlerpDot ==
  slerpIn.q0.x[1] * slerpIn.q1.x[1] + slerpIn.q0.x[2] * slerpIn.q1.x[2]
  + slerpIn.q0.x[3] * slerpIn.q1.x[3] + slerpIn.q0.x[4] * slerpIn.q1.x[4]

\* dot > 0.9995 after the sign flip: the linear fallback branch.
SlerpLinear ==
  Above9995(IF SlerpDot < 0 THEN -SlerpDot ELSE SlerpDot,
            slerpIn.q0.rad * slerpIn.q1.rad)

\* slerp was called on two unit quaternions.
SlerpUnitCall ==
  /\ slerpIn.called
  /\ quat_is_normalized(slerpIn.q0)
  /\ quat_is_normalized(slerpIn.q1)

\* C23: for all unit q0 and q1, in the spherical branch and in the linear
\* fallback branch alike, slerp(q0, q1, 0) = q0, and slerp(q0, q1, 1) is -q1
\* when dot(q0, q1) < 0 and q1 otherwise.
C23_SlerpEndpoints ==
  SlerpUnitCall =>
    /\ slerpIn.t = 0 => slerpOut = slerpIn.q0
    /\ (slerpIn.t = 1 /\ SlerpDot < 0) => slerpOut = QuatNeg(slerpIn.q1)
    /\ (slerpIn.t = 1 /\ SlerpDot >= 0) => slerpOut = slerpIn.q1

\* slerp at t = 1 with dot < 0 in the linear fallback branch, between two
\* quaternions that are not opposite.
C23_Witness ==
  /\ SlerpUnitCall
  /\ slerpIn.t = 1
  /\ SlerpDot < 0
  /\ SlerpLinear
  /\ slerpIn.q0.rad # slerpIn.q1.rad
  /\ slerpOut = QuatNeg(slerpIn.q1)

\* ------------------------------------------------- returned trajectories
\* C22: every state returned by compute_states has a unit-norm quaternion
\* y[9:13]: no norm other than 1, whether given or introduced by a solver
\* step, reaches the returned trajectory.
C22_UnitNormStates ==
  csIn.called =>
    \A i \in DOMAIN csOut : csOut[i].sq = 1 /\ csOut[i].drift = 0

IsPauseResume(m) == m.kind = "object" /\ m.command \in {"pause", "resume"}

\* A step in which the receiver takes a pause or a resume command leaves the
\* latched configuration, the configure event, both tasks and the messages
\* built and sent as they were.
PauseFrameStep ==
  (received' # received /\ IsPauseResume(Last(received'))) =>
    /\ sim_config' = sim_config
    /\ config_event' = config_event
    /\ rpc' = rpc /\ spc' = spc /\ handler' = handler
    /\ out' = out /\ sent' = sent
    /\ built' = built /\ nCompute' = nCompute

PauseFrame == [][PauseFrameStep]_vars

\* The session received pause and resume commands and then its only
\* configure, and the sender has ended its run on an open channel.
ConfiguredAfterPauses ==
  /\ NumConfigures = 1
  /\ Len(received) >= 2
  /\ IsConfigure(Last(received))
  /\ \A i \in 1..(Len(received) - 1) : IsPauseResume(received[i])
  /\ connOpen
  /\ spc \in {"idle", "raised"}

\* The configure was honored: one compute and one dataset or error.
Honored ==
  /\ spc = "idle"
  /\ nCompute = 1
  /\ Len(sent) = 1
  /\ Keys(sent[1]) \in {{"dataset", "metrics"}, {"error"}}

\* C25: pause and resume change only the pause flag (the latched
\* configuration, the configure event and the messages sent are as if they
\* had not been received), and a configure that follows any number of them is
\* still honored: it leads to a compute and one dataset or error.
C25_PauseResumeOnlyFlag ==
  [][PauseFrameStep /\ (ConfiguredAfterPauses' => Honored')]_vars

\* ------------------------------------------------------------------ metrics
\* C26: for a trajectory of N integration points, num_integration_points = N,
\* solver_state_size_bytes = 8 * (1 + 16) * N and
\* time_per_integration_point_s = compute_time_s / N, taken as 0 when N = 0;
\* the timed interval contains the compute_states call and ends before
\* evaluate_gui starts.
C26_Metrics ==
  /\ httpMetrics.num_integration_points = 0 =>
       httpMetrics.time_per_integration_point_s.num = 0
  /\ httpResp.kind = "dataset" =>
    LET m == httpMetrics
        N == httpResp.N
    IN /\ m.num_integration_points = N
       /\ m.solver_state_size_bytes = 8 * (1 + 16) * N
       /\ N > 0
       /\ m.time_per_integration_point_s.num * N
            = m.compute_time_s * m.time_per_integration_point_s.den
       /\ m.compute_time_s = m.times.t1 - m.times.t0
       /\ m.times.t0 <= m.times.csStart
       /\ m.times.csEnd <= m.times.t1
       /\ m.times.t1 <= m.times.guiStart

\* A dataset of several integration points whose setup, compute and
\* resampling all took time: only the compute is in compute_time_s.
C26_Witness ==
  /\ httpResp.kind = "dataset"
  /\ httpResp.N >= 2
  /\ httpMetrics.times.csStart > 0
  /\ httpMetrics.times.guiEnd > httpMetrics.times.guiStart
  /\ httpMetrics.compute_time_s > 0
  /\ httpMetrics.compute_time_s = httpMetrics.times.csEnd - httpMetrics.times.csStart

\* ------------------------------------------ one configuration per compute
\* Positions in received of the configure commands the receiver latched.
LatchedAt ==
  {i \in DOMAIN received : IsConfigure(received[i]) /\ ~ReceiverRaises(received[i])}

\* The payload of the last configure latched so far.
LastPayload ==
  received[CHOOSE i \in LatchedAt : \A j \in LatchedAt : j <= i].payload

\* C28: the compute of a streaming session reads one consistent
\* configuration: the step in which the sender resumes from the configure
\* event reads, in every field (simulation settings, control settings,
\* epoch), the configuration of the last configure latched before it; a
\* configure latched after that step changes neither what was read nor the
\* message built from it.
C28_OneConfiguration ==
  [][/\ (spc = "wait" /\ spc' # "wait") =>
          /\ LatchedAt # {}
          /\ used' = [SenderReads(merge_with_defaults(LastPayload))
                        EXCEPT !.epoch = LastPayload["epoch_utc"]]
     /\ (spc # "wait" /\ received' # received) =>
          (used' = used /\ out' = out /\ nCompute' = nCompute)]_vars

\* Two configure commands with different payloads were latched before the
\* sender resumed, and the one compute of the session read the second.
C28_Witness ==
  /\ Len(received) = 2
  /\ LatchedAt = {1, 2}
  /\ received[1].payload = EmptyPayload
  /\ Len(built) = 1
  /\ used.simulation.t_max = Num(1)
  /\ used.control.kp = Num(1)
  /\ used.epoch = received[2].payload["epoch_utc"]
  /\ used.epoch # None
  /\ spc = "send"
  /\ out.kind = "dataset"

\* ---------------------------------------------------------- control policy
\* C29: control arguments are passed only when the merged configuration has
\* a control_type and a non-empty qc; otherwise the dynamics run with
\* ZeroTorque, gains 0 and the identity command whatever kp and kd are.
\* Whenever they are passed, the variant the dynamics receive is the one the
\* configuration's control type stands for: the number itself when it was
\* normalized from the payload, the alias-table variant of a raw string of
\* the defaults; gains and command are those of the configuration.
C29_ControlPolicy ==
  ctlIn.called =>
    LET cfg == ctlIn.cfg
        has == cfg.control_type # None /\ cfg.qc.tag = "list" /\ Len(cfg.qc.l) > 0
    IN /\ ctlOut.args.passed <=> has
       /\ ~has => ctlOut.dyn = [ct_int |-> 0, kp_val |-> 0, kd_val |-> 0,
                                qc_arr |-> <<0, 0, 0, 1>>]
       /\ has =>
            /\ ctlOut.dyn.ct_int = (IF cfg.control_type.tag = "num"
                                     THEN cfg.control_type.n
                                     ELSE AliasVariant(cfg.control_type))
            /\ ctlOut.dyn.ct_int \in 0..2
            /\ ctlOut.dyn.kp_val = cfg.kp.n
            /\ ctlOut.dyn.kd_val = cfg.kd.n
            /\ ctlOut.dyn.qc_arr = cfg.qc.l

\* A configuration with a tracking control type and gains but an empty qc:
\* the compute runs with ZeroTorque and gains 0.
C29_Witness ==
  /\ ctlIn.called
  /\ ctlIn.cfg.control_type = Num(1)
  /\ ctlIn.cfg.kp = Num(2)
  /\ ctlIn.cfg.qc = List(<<>>)
  /\ ~ctlOut.args.passed
  /\ ctlOut.dyn.ct_int = 0
  /\ ctlOut.dyn.kp_val = 0

\* ------------------------------------------------------- replay determinism
\* C27: two runs of plant.run with the same configuration and the same
\* rng_seed, with no incoming datagrams, run to t_final and write identical
\* replay logs (same messages, same order, same seq and t_sim values), from
\* generators that return the same draws.
C27_ReplayDeterminism ==
  (\A i \in 1..2 : runs[i].pc \in {"done", "raised"}) =>
    /\ \A i \in 1..2 : runs[i].pc = "done" /\ runs[i].t_sim > runs[i].cfg.t_final
    /\ runs[1].replay = runs[2].replay
    /\ runs[1].rng = runs[2].rng

\* ------------------------------------------------------- emission schedule
\* C30: over any non-decreasing sequence of t_sim values passed to
\* maybe_emit of a GPSSynthesizer or GyroSynthesizer, the first call emits, a
\* call emits exactly when t_sim + 1e-9 >= the next-emit time, seq and the
\* next-emit time change only on a call that emits, emitted messages carry
\* seq = 1, 2, 3, ..., and two consecutive emitted messages are at least
\* 1 / rate_hz - 1e-9 apart in t_sim.
C30_EmissionSchedule ==
  [][/\ Len(sensorCalls') = Len(sensorCalls) + 1 =>
          LET t == Last(sensorCalls')
              emits == Len(emitted') = Len(emitted) + 1
          IN /\ emits <=> t + Eps >= sensor.next_emit
             /\ sensorCalls = <<>> => emits
             /\ emits => /\ Last(emitted').t_sim = t
                         /\ Last(emitted').seq = sensor.seq + 1
                         /\ sensor'.seq = sensor.seq + 1
             /\ ~emits => /\ emitted' = emitted
                          /\ sensor'.seq = sensor.seq
                          /\ sensor'.next_emit = sensor.next_emit
     /\ \A i \in DOMAIN emitted' : emitted'[i].seq = i
     /\ \A i \in 1..(Len(emitted') - 1) :
          emitted'[i + 1].t_sim - emitted'[i].t_sim >= sensor'.period - Eps]_vars

\* A gyro called four times: emissions exactly one period less the tolerance
\* apart, and a call in between that emits nothing.
C30_Witness ==
  /\ sensor.kind = "gyro"
  /\ sensor.period = MaxPeriod
  /\ Len(sensorCalls) = 4
  /\ Len(emitted) = 2
  /\ emitted[2].t_sim - emitted[1].t_sim = sensor.period - Eps
  /\ emitted[2].seq = 2
  /\ sensor.next_emit > Last(sensorCalls) + Eps

====
